---- MODULE Spec2Model ----
(***************************************************************************)
(* Personal-Assistant-SION: the intent classifier and entity extractor of  *)
(* the NLU service, the date and time parsers of the calendar task and of  *)
(* the LLM agent, the calendar period resolver of the LLM agent, and the   *)
(* events and recurrence rules the agent has the calendar service create.  *)
(*                                                                         *)
(* A Python str is modelled as a sequence of Unicode code points (position *)
(* k of the sequence is index k-1 of the str).  Confidences are kept in    *)
(* thousandths so that the float arithmetic of the source stays exact.     *)
(***************************************************************************)
EXTENDS Integers, Sequences, FiniteSets, TLC

VARIABLES
  text,         \* the utterance handed to IntentClassifier.analyze
  analysis,     \* what analyze returned for it (NoAnalysis before the call)
  time_str,     \* the time entity handed to CalendarTask._parse_time_entity
  parsed_time,  \* the (hour, minute) it returned (NoTime before the call)
  now,          \* what datetime.now() returns when the call under way reads it
  now_again,    \* what it returns when _add_calendar_event reads it for end_date
  date_str,     \* the date token handed to a date parser
  parsed_date,  \* the parser that ran and the datetime it returned
  args,         \* the arguments of a check_calendar tool call
  resolved,     \* the date range LLMAgent._check_calendar queried
  event_args,   \* the arguments of an add_calendar_event tool call
  event,        \* the event LLMAgent._add_calendar_event had the calendar create
  earlier,      \* what an earlier call with the same arguments returned
  llm_task,     \* the LLMTask instance: its client and its conversation store
  issued,       \* the conversation ids uuid4 cannot return any more
  replied,      \* the last call made on the LLMTask instance and what it returned
  calendar_task, \* the CalendarTask instance: credentials_path, service, _initialized
  calendar,     \* the events of the user's Google Calendar and the ids it gave out
  executed,     \* the last CalendarTask.execute call and what it returned
  settings,     \* the notification settings and whether sounddevice imports
  inbox,        \* the unread mails of the Gmail inbox, newest first
  app,          \* the SionApp instance: its monitoring and notification fields
  tk,           \* the callbacks handed to self.after that have not run yet
  checks,       \* the threads of _check_new_emails: where each is in its loop
  event_checks, \* the threads of _check_upcoming_events: where each is
  recorder,     \* whether the record_and_process thread is running
  shown,        \* the notifications and the reply shown with add_message
  handed,       \* how often each mail was handed to _notify_new_email
  agent,        \* the module global _agent of llm_agent.py (NoAgent: None)
  constructed,  \* how many LLMAgent instances have been constructed
  senders       \* the process_message threads: where each is in get_agent

nluVars == <<text, analysis>>

timeVars == <<time_str, parsed_time>>

dateVars == <<date_str, parsed_date>>

calVars == <<args, resolved>>

evVars == <<now_again, event_args, event>>

llmVars == <<llm_task, issued, replied>>

ctVars == <<calendar_task, calendar, executed>>

mailVars == <<settings, inbox, app, tk, checks, event_checks, recorder, shown, handed>>

agentVars == <<agent, constructed, senders>>

\* the long-lived objects of the assistant
objVars == <<llmVars, ctVars, mailVars, agentVars>>

vars ==
  <<text, analysis, time_str, parsed_time, now, now_again, date_str, parsed_date, args,
    resolved, event_args, event, earlier, llm_task, issued, replied,
    calendar_task, calendar, executed, settings, inbox, app, tk, checks, event_checks,
    recorder, shown, handed, agent, constructed, senders>>

\* what the calls of one component leave alone
notNLU == <<timeVars, now, dateVars, calVars, evVars, earlier, objVars>>

notTime == <<nluVars, now, dateVars, calVars, evVars, earlier, objVars>>

notDate == <<nluVars, timeVars, calVars, evVars, earlier, objVars>>

notCal == <<nluVars, timeVars, dateVars, evVars, earlier, objVars>>

notEvent == <<nluVars, timeVars, dateVars, calVars, earlier, objVars>>

\* datetime(year, month, day, hour, minute); seconds are not modelled
DateTime(y, m, d, hh, mm) ==
  [year |-> y, month |-> m, day |-> d, hour |-> hh, minute |-> mm]

(***************************************************************************)
(* The state of a component before it is called, and while another         *)
(* component is the one exercised                                          *)
(***************************************************************************)
NoAnalysis == [intent |-> "", intent_confidence |-> 0, entities |-> <<>>, done |-> FALSE]

\* no utterance is under analysis
IdleNLU ==
  /\ text = <<>>
  /\ analysis = NoAnalysis

NoTime == [hour |-> 0, minute |-> 0, raised |-> FALSE, done |-> FALSE]

\* no time entity is being parsed
IdleTime ==
  /\ time_str = <<>>
  /\ parsed_time = NoTime

\* the clock is not read
IdleNow == now = DateTime(2024, 12, 15, 9, 0)

NoDate == [by |-> "", date |-> DateTime(1, 1, 1, 0, 0), raised |-> FALSE]

\* no date token is being parsed
IdleDate ==
  /\ date_str = <<>>
  /\ parsed_date = NoDate

\* an optional argument that is not given
Absent == <<>>

NoArgs ==
  [period_type |-> Absent, relative |-> Absent, year |-> Absent, month |-> Absent,
   start_date |-> Absent, end_date |-> Absent]

NoRange ==
  [status |-> "", start |-> DateTime(1, 1, 1, 0, 0), end |-> DateTime(1, 1, 1, 0, 0),
   label |-> "", query |-> ""]

\* no check_calendar call is under way
IdleCal ==
  /\ args = NoArgs
  /\ resolved = NoRange

\* a Python int, and None
PyInt(n) == [none |-> FALSE, n |-> n]

PyNone == [none |-> TRUE, n |-> 0]

NoEventArgs ==
  [start_date |-> Absent, date |-> Absent, end_date |-> Absent, time |-> Absent,
   duration |-> Absent, is_all_day |-> Absent, recurrence |-> Absent,
   recurrence_count |-> Absent]

NoEvent ==
  [call |-> "", start |-> DateTime(1, 1, 1, 0, 0), end |-> DateTime(1, 1, 1, 0, 0),
   recurrence |-> <<>>]

\* no add_calendar_event call is under way
IdleEvent ==
  /\ now_again = now
  /\ event_args = NoEventArgs
  /\ event = NoEvent

NoEarlier == [of |-> "", date |-> NoDate.date, range |-> NoRange]

\* no call is being repeated
IdleRepeat == earlier = NoEarlier

\* conversation_id None, and a conversation id
NoId == [none |-> TRUE, id |-> ""]

Id(c) == [none |-> FALSE, id |-> c]

\* a store with no conversation
NoConversations == [c \in {} |-> <<>>]

NoReply ==
  [call |-> "", message |-> 0, given |-> NoId, before |-> NoConversations,
   outcome |-> "", conversation_id |-> NoId, tokens_used |-> 0]

\* no LLMTask has been constructed
IdleChat ==
  /\ llm_task = [client |-> FALSE, conversations |-> NoConversations]
  /\ issued = {}
  /\ replied = NoReply

NoParams ==
  [event_id |-> Absent, title |-> Absent, date |-> Absent, time |-> Absent,
   duration |-> Absent]

NoExecuted ==
  [action |-> "", params |-> NoParams, before |-> <<>>, success |-> FALSE,
   message |-> "", events |-> <<>>, event_id |-> Absent, calls |-> <<>>]

\* no CalendarTask has been constructed
IdleCalendarTask ==
  /\ calendar_task = [credentials_path |-> FALSE, service |-> FALSE, initialized |-> FALSE]
  /\ calendar = [events |-> <<>>, issued |-> 0]
  /\ executed = NoExecuted

\* no SionApp has been constructed
IdleMail ==
  /\ settings = [email_enabled |-> TRUE, schedule_enabled |-> TRUE,
                 email_voice_response |-> TRUE, audio_available |-> TRUE]
  /\ inbox = <<>>
  /\ app = [monitoring_active |-> FALSE, monitoring_start_time |-> 0,
            notified_email_ids |-> {}, notified_events |-> {},
            waiting_for_response |-> FALSE, pending_notification |-> [type |-> "", id |-> 0]]
  /\ tk = [running |-> FALSE, soon |-> <<>>, later |-> {}]
  /\ checks = <<>>
  /\ event_checks = <<>>
  /\ recorder = FALSE
  /\ shown = [emails |-> {}, events |-> {}, reply |-> ""]
  /\ handed = <<>>

\* no message has been sent and no LLMAgent constructed
IdleAgent ==
  /\ agent = 0
  /\ constructed = 0
  /\ senders = <<>>

\* none of the long-lived objects is in use
IdleObjects == IdleChat /\ IdleCalendarTask /\ IdleMail /\ IdleAgent

(***************************************************************************)
(* Python's re module: a pattern is a tree, and Ends(re, text, i) is       *)
(* the sequence of positions a match of re starting at position i can end  *)
(* at, in the order the backtracking matcher tries them (alternatives left *)
(* to right, repeats greedy).  The first element is the match re returns.  *)
(***************************************************************************)
Lit(s) == [t |-> "lit", s |-> s]

In(rs) == [t |-> "in", rs |-> rs]

Cat(xs) == [t |-> "cat", xs |-> xs]

Alt(xs) == [t |-> "alt", xs |-> xs]

Rep(x, lo, hi) == [t |-> "rep", x |-> x, lo |-> lo, hi |-> hi, inf |-> FALSE]

RepFrom(x, lo) == [t |-> "rep", x |-> x, lo |-> lo, hi |-> lo, inf |-> TRUE]

\* "." : any character but a line feed
AnyChar == [t |-> "any"]

\* \d and int(): the first of the ten digits of every decimal script
DecimalZeros ==
  {48, 1632, 1776, 1984, 2406, 2534, 2662, 2790, 2918, 3046, 3174, 3302,
   3430, 3558, 3664, 3792, 3872, 4160, 4240, 6112, 6160, 6470, 6608, 6784,
   6800, 6992, 7088, 7232, 7248, 42528, 43216, 43264, 43472, 43504, 43600,
   44016, 65296, 66720, 68912, 69734, 69872, 69942, 70096, 70384, 70736,
   70864, 71248, 71360, 71472, 71904, 72016, 72784, 73040, 73120, 92768,
   92864, 93008, 120782, 120792, 120802, 120812, 120822, 123200, 123632,
   125264, 130032}

IsDecimal(c) == \E z \in DecimalZeros : z <= c /\ c <= z + 9

\* the digit a decimal character stands for
DigitValue(c) == c - (CHOOSE z \in DecimalZeros : z <= c /\ c <= z + 9)

Digit == In({<<z, z + 9>> : z \in DecimalZeros})

\* \s : the characters str.isspace() accepts
Space ==
  In({<<9, 13>>, <<28, 32>>, <<133, 133>>, <<160, 160>>, <<5760, 5760>>,
      <<8192, 8202>>, <<8232, 8233>>, <<8239, 8239>>, <<8287, 8287>>,
      <<12288, 12288>>})

\* the simple lowercase mapping of Unicode (_PyUnicode_ToLowercase):
\* <<first, last, step, offset>>, the characters first, first + step, ...,
\* last map to themselves plus offset
LowerRanges ==
  {<<65, 90, 1, 32>>, <<192, 214, 1, 32>>, <<216, 222, 1, 32>>,
   <<256, 302, 2, 1>>, <<304, 304, 1, -199>>, <<306, 310, 2, 1>>,
   <<313, 327, 2, 1>>, <<330, 374, 2, 1>>, <<376, 376, 1, -121>>,
   <<377, 381, 2, 1>>, <<385, 385, 1, 210>>, <<386, 388, 2, 1>>,
   <<390, 390, 1, 206>>, <<391, 391, 1, 1>>, <<393, 394, 1, 205>>,
   <<395, 395, 1, 1>>, <<398, 398, 1, 79>>, <<399, 399, 1, 202>>,
   <<400, 400, 1, 203>>, <<401, 401, 1, 1>>, <<403, 403, 1, 205>>,
   <<404, 404, 1, 207>>, <<406, 406, 1, 211>>, <<407, 407, 1, 209>>,
   <<408, 408, 1, 1>>, <<412, 412, 1, 211>>, <<413, 413, 1, 213>>,
   <<415, 415, 1, 214>>, <<416, 420, 2, 1>>, <<422, 422, 1, 218>>,
   <<423, 423, 1, 1>>, <<425, 425, 1, 218>>, <<428, 428, 1, 1>>,
   <<430, 430, 1, 218>>, <<431, 431, 1, 1>>, <<433, 434, 1, 217>>,
   <<435, 437, 2, 1>>, <<439, 439, 1, 219>>, <<440, 440, 1, 1>>,
   <<444, 444, 1, 1>>, <<452, 452, 1, 2>>, <<453, 453, 1, 1>>,
   <<455, 455, 1, 2>>, <<456, 456, 1, 1>>, <<458, 458, 1, 2>>,
   <<459, 475, 2, 1>>, <<478, 494, 2, 1>>, <<497, 497, 1, 2>>,
   <<498, 500, 2, 1>>, <<502, 502, 1, -97>>, <<503, 503, 1, -56>>,
   <<504, 542, 2, 1>>, <<544, 544, 1, -130>>, <<546, 562, 2, 1>>,
   <<570, 570, 1, 10795>>, <<571, 571, 1, 1>>, <<573, 573, 1, -163>>,
   <<574, 574, 1, 10792>>, <<577, 577, 1, 1>>, <<579, 579, 1, -195>>,
   <<580, 580, 1, 69>>, <<581, 581, 1, 71>>, <<582, 590, 2, 1>>,
   <<880, 882, 2, 1>>, <<886, 886, 1, 1>>, <<895, 895, 1, 116>>,
   <<902, 902, 1, 38>>, <<904, 906, 1, 37>>, <<908, 908, 1, 64>>,
   <<910, 911, 1, 63>>, <<913, 929, 1, 32>>, <<931, 939, 1, 32>>,
   <<975, 975, 1, 8>>, <<984, 1006, 2, 1>>, <<1012, 1012, 1, -60>>,
   <<1015, 1015, 1, 1>>, <<1017, 1017, 1, -7>>, <<1018, 1018, 1, 1>>,
   <<1021, 1023, 1, -130>>, <<1024, 1039, 1, 80>>, <<1040, 1071, 1, 32>>,
   <<1120, 1152, 2, 1>>, <<1162, 1214, 2, 1>>, <<1216, 1216, 1, 15>>,
   <<1217, 1229, 2, 1>>, <<1232, 1326, 2, 1>>, <<1329, 1366, 1, 48>>,
   <<4256, 4293, 1, 7264>>, <<4295, 4295, 1, 7264>>, <<4301, 4301, 1, 7264>>,
   <<5024, 5103, 1, 38864>>, <<5104, 5109, 1, 8>>, <<7312, 7354, 1, -3008>>,
   <<7357, 7359, 1, -3008>>, <<7680, 7828, 2, 1>>, <<7838, 7838, 1, -7615>>,
   <<7840, 7934, 2, 1>>, <<7944, 7951, 1, -8>>, <<7960, 7965, 1, -8>>,
   <<7976, 7983, 1, -8>>, <<7992, 7999, 1, -8>>, <<8008, 8013, 1, -8>>,
   <<8025, 8031, 2, -8>>, <<8040, 8047, 1, -8>>, <<8072, 8079, 1, -8>>,
   <<8088, 8095, 1, -8>>, <<8104, 8111, 1, -8>>, <<8120, 8121, 1, -8>>,
   <<8122, 8123, 1, -74>>, <<8124, 8124, 1, -9>>, <<8136, 8139, 1, -86>>,
   <<8140, 8140, 1, -9>>, <<8152, 8153, 1, -8>>, <<8154, 8155, 1, -100>>,
   <<8168, 8169, 1, -8>>, <<8170, 8171, 1, -112>>, <<8172, 8172, 1, -7>>,
   <<8184, 8185, 1, -128>>, <<8186, 8187, 1, -126>>, <<8188, 8188, 1, -9>>,
   <<8486, 8486, 1, -7517>>, <<8490, 8490, 1, -8383>>,
   <<8491, 8491, 1, -8262>>, <<8498, 8498, 1, 28>>, <<8544, 8559, 1, 16>>,
   <<8579, 8579, 1, 1>>, <<9398, 9423, 1, 26>>, <<11264, 11311, 1, 48>>,
   <<11360, 11360, 1, 1>>, <<11362, 11362, 1, -10743>>,
   <<11363, 11363, 1, -3814>>, <<11364, 11364, 1, -10727>>,
   <<11367, 11371, 2, 1>>, <<11373, 11373, 1, -10780>>,
   <<11374, 11374, 1, -10749>>, <<11375, 11375, 1, -10783>>,
   <<11376, 11376, 1, -10782>>, <<11378, 11378, 1, 1>>, <<11381, 11381, 1, 1>>,
   <<11390, 11391, 1, -10815>>, <<11392, 11490, 2, 1>>, <<11499, 11501, 2, 1>>,
   <<11506, 11506, 1, 1>>, <<42560, 42604, 2, 1>>, <<42624, 42650, 2, 1>>,
   <<42786, 42798, 2, 1>>, <<42802, 42862, 2, 1>>, <<42873, 42875, 2, 1>>,
   <<42877, 42877, 1, -35332>>, <<42878, 42886, 2, 1>>, <<42891, 42891, 1, 1>>,
   <<42893, 42893, 1, -42280>>, <<42896, 42898, 2, 1>>, <<42902, 42920, 2, 1>>,
   <<42922, 42922, 1, -42308>>, <<42923, 42923, 1, -42319>>,
   <<42924, 42924, 1, -42315>>, <<42925, 42925, 1, -42305>>,
   <<42926, 42926, 1, -42308>>, <<42928, 42928, 1, -42258>>,
   <<42929, 42929, 1, -42282>>, <<42930, 42930, 1, -42261>>,
   <<42931, 42931, 1, 928>>, <<42932, 42946, 2, 1>>, <<42948, 42948, 1, -48>>,
   <<42949, 42949, 1, -42307>>, <<42950, 42950, 1, -35384>>,
   <<42951, 42953, 2, 1>>, <<42960, 42960, 1, 1>>, <<42966, 42968, 2, 1>>,
   <<42997, 42997, 1, 1>>, <<65313, 65338, 1, 32>>, <<66560, 66599, 1, 40>>,
   <<66736, 66771, 1, 40>>, <<66928, 66938, 1, 39>>, <<66940, 66954, 1, 39>>,
   <<66956, 66962, 1, 39>>, <<66964, 66965, 1, 39>>, <<68736, 68786, 1, 64>>,
   <<71840, 71871, 1, 32>>, <<93760, 93791, 1, 32>>, <<125184, 125217, 1, 34>>}

\* the characters below "A" and the Hangul syllables: none has a case
NoCase(c) == c < 65 \/ (c >= 44032 /\ c <= 55203)

\* c moved by the offset of the range it is in
Moved(c, ts) == IF ts = {} THEN c ELSE c + (CHOOSE t \in ts : TRUE)[4]

\* the lowercase of one character: str.lower() of every character but
\* U+0130 and U+03A3, and the lower() of the re module
LowerChar(c) ==
  IF NoCase(c) \/ (c > 90 /\ c < 192) THEN c
  ELSE IF c <= 90 THEN c + 32
  ELSE Moved(c, {t \in LowerRanges :
                   t[1] <= c /\ c <= t[2] /\ (c - t[1]) % t[3] = 0})

\* the characters that do not end a word for str.lower() (Case_Ignorable)
CaseIgnorable ==
  {<<39, 39>>, <<46, 46>>, <<58, 58>>, <<94, 94>>, <<96, 96>>, <<168, 168>>,
   <<173, 173>>, <<175, 175>>, <<180, 180>>, <<183, 184>>, <<688, 879>>,
   <<884, 885>>, <<890, 890>>, <<900, 901>>, <<903, 903>>, <<1155, 1161>>,
   <<1369, 1369>>, <<1375, 1375>>, <<1425, 1469>>, <<1471, 1471>>,
   <<1473, 1474>>, <<1476, 1477>>, <<1479, 1479>>, <<1524, 1524>>,
   <<1536, 1541>>, <<1552, 1562>>, <<1564, 1564>>, <<1600, 1600>>,
   <<1611, 1631>>, <<1648, 1648>>, <<1750, 1757>>, <<1759, 1768>>,
   <<1770, 1773>>, <<1807, 1807>>, <<1809, 1809>>, <<1840, 1866>>,
   <<1958, 1968>>, <<2027, 2037>>, <<2042, 2042>>, <<2045, 2045>>,
   <<2070, 2093>>, <<2137, 2139>>, <<2184, 2184>>, <<2192, 2193>>,
   <<2200, 2207>>, <<2249, 2306>>, <<2362, 2362>>, <<2364, 2364>>,
   <<2369, 2376>>, <<2381, 2381>>, <<2385, 2391>>, <<2402, 2403>>,
   <<2417, 2417>>, <<2433, 2433>>, <<2492, 2492>>, <<2497, 2500>>,
   <<2509, 2509>>, <<2530, 2531>>, <<2558, 2558>>, <<2561, 2562>>,
   <<2620, 2620>>, <<2625, 2626>>, <<2631, 2632>>, <<2635, 2637>>,
   <<2641, 2641>>, <<2672, 2673>>, <<2677, 2677>>, <<2689, 2690>>,
   <<2748, 2748>>, <<2753, 2757>>, <<2759, 2760>>, <<2765, 2765>>,
   <<2786, 2787>>, <<2810, 2815>>, <<2817, 2817>>, <<2876, 2876>>,
   <<2879, 2879>>, <<2881, 2884>>, <<2893, 2893>>, <<2901, 2902>>,
   <<2914, 2915>>, <<2946, 2946>>, <<3008, 3008>>, <<3021, 3021>>,
   <<3072, 3072>>, <<3076, 3076>>, <<3132, 3132>>, <<3134, 3136>>,
   <<3142, 3144>>, <<3146, 3149>>, <<3157, 3158>>, <<3170, 3171>>,
   <<3201, 3201>>, <<3260, 3260>>, <<3263, 3263>>, <<3270, 3270>>,
   <<3276, 3277>>, <<3298, 3299>>, <<3328, 3329>>, <<3387, 3388>>,
   <<3393, 3396>>, <<3405, 3405>>, <<3426, 3427>>, <<3457, 3457>>,
   <<3530, 3530>>, <<3538, 3540>>, <<3542, 3542>>, <<3633, 3633>>,
   <<3636, 3642>>, <<3654, 3662>>, <<3761, 3761>>, <<3764, 3772>>,
   <<3782, 3782>>, <<3784, 3789>>, <<3864, 3865>>, <<3893, 3893>>,
   <<3895, 3895>>, <<3897, 3897>>, <<3953, 3966>>, <<3968, 3972>>,
   <<3974, 3975>>, <<3981, 3991>>, <<3993, 4028>>, <<4038, 4038>>,
   <<4141, 4144>>, <<4146, 4151>>, <<4153, 4154>>, <<4157, 4158>>,
   <<4184, 4185>>, <<4190, 4192>>, <<4209, 4212>>, <<4226, 4226>>,
   <<4229, 4230>>, <<4237, 4237>>, <<4253, 4253>>, <<4348, 4348>>,
   <<4957, 4959>>, <<5906, 5908>>, <<5938, 5939>>, <<5970, 5971>>,
   <<6002, 6003>>, <<6068, 6069>>, <<6071, 6077>>, <<6086, 6086>>,
   <<6089, 6099>>, <<6103, 6103>>, <<6109, 6109>>, <<6155, 6159>>,
   <<6211, 6211>>, <<6277, 6278>>, <<6313, 6313>>, <<6432, 6434>>,
   <<6439, 6440>>, <<6450, 6450>>, <<6457, 6459>>, <<6679, 6680>>,
   <<6683, 6683>>, <<6742, 6742>>, <<6744, 6750>>, <<6752, 6752>>,
   <<6754, 6754>>, <<6757, 6764>>, <<6771, 6780>>, <<6783, 6783>>,
   <<6823, 6823>>, <<6832, 6862>>, <<6912, 6915>>, <<6964, 6964>>,
   <<6966, 6970>>, <<6972, 6972>>, <<6978, 6978>>, <<7019, 7027>>,
   <<7040, 7041>>, <<7074, 7077>>, <<7080, 7081>>, <<7083, 7085>>,
   <<7142, 7142>>, <<7144, 7145>>, <<7149, 7149>>, <<7151, 7153>>,
   <<7212, 7219>>, <<7222, 7223>>, <<7288, 7293>>, <<7376, 7378>>,
   <<7380, 7392>>, <<7394, 7400>>, <<7405, 7405>>, <<7412, 7412>>,
   <<7416, 7417>>, <<7468, 7530>>, <<7544, 7544>>, <<7579, 7679>>,
   <<8125, 8125>>, <<8127, 8129>>, <<8141, 8143>>, <<8157, 8159>>,
   <<8173, 8175>>, <<8189, 8190>>, <<8203, 8207>>, <<8216, 8217>>,
   <<8228, 8228>>, <<8231, 8231>>, <<8234, 8238>>, <<8288, 8292>>,
   <<8294, 8303>>, <<8305, 8305>>, <<8319, 8319>>, <<8336, 8348>>,
   <<8400, 8432>>, <<11388, 11389>>, <<11503, 11505>>, <<11631, 11631>>,
   <<11647, 11647>>, <<11744, 11775>>, <<11823, 11823>>, <<12293, 12293>>,
   <<12330, 12333>>, <<12337, 12341>>, <<12347, 12347>>, <<12441, 12446>>,
   <<12540, 12542>>, <<40981, 40981>>, <<42232, 42237>>, <<42508, 42508>>,
   <<42607, 42610>>, <<42612, 42621>>, <<42623, 42623>>, <<42652, 42655>>,
   <<42736, 42737>>, <<42752, 42785>>, <<42864, 42864>>, <<42888, 42890>>,
   <<42994, 42996>>, <<43000, 43001>>, <<43010, 43010>>, <<43014, 43014>>,
   <<43019, 43019>>, <<43045, 43046>>, <<43052, 43052>>, <<43204, 43205>>,
   <<43232, 43249>>, <<43263, 43263>>, <<43302, 43309>>, <<43335, 43345>>,
   <<43392, 43394>>, <<43443, 43443>>, <<43446, 43449>>, <<43452, 43453>>,
   <<43471, 43471>>, <<43493, 43494>>, <<43561, 43566>>, <<43569, 43570>>,
   <<43573, 43574>>, <<43587, 43587>>, <<43596, 43596>>, <<43632, 43632>>,
   <<43644, 43644>>, <<43696, 43696>>, <<43698, 43700>>, <<43703, 43704>>,
   <<43710, 43711>>, <<43713, 43713>>, <<43741, 43741>>, <<43756, 43757>>,
   <<43763, 43764>>, <<43766, 43766>>, <<43867, 43871>>, <<43881, 43883>>,
   <<44005, 44005>>, <<44008, 44008>>, <<44013, 44013>>, <<64286, 64286>>,
   <<64434, 64450>>, <<65024, 65039>>, <<65043, 65043>>, <<65056, 65071>>,
   <<65106, 65106>>, <<65109, 65109>>, <<65279, 65279>>, <<65287, 65287>>,
   <<65294, 65294>>, <<65306, 65306>>, <<65342, 65342>>, <<65344, 65344>>,
   <<65392, 65392>>, <<65438, 65439>>, <<65507, 65507>>, <<65529, 65531>>,
   <<66045, 66045>>, <<66272, 66272>>, <<66422, 66426>>, <<67456, 67461>>,
   <<67463, 67504>>, <<67506, 67514>>, <<68097, 68099>>, <<68101, 68102>>,
   <<68108, 68111>>, <<68152, 68154>>, <<68159, 68159>>, <<68325, 68326>>,
   <<68900, 68903>>, <<69291, 69292>>, <<69446, 69456>>, <<69506, 69509>>,
   <<69633, 69633>>, <<69688, 69702>>, <<69744, 69744>>, <<69747, 69748>>,
   <<69759, 69761>>, <<69811, 69814>>, <<69817, 69818>>, <<69821, 69821>>,
   <<69826, 69826>>, <<69837, 69837>>, <<69888, 69890>>, <<69927, 69931>>,
   <<69933, 69940>>, <<70003, 70003>>, <<70016, 70017>>, <<70070, 70078>>,
   <<70089, 70092>>, <<70095, 70095>>, <<70191, 70193>>, <<70196, 70196>>,
   <<70198, 70199>>, <<70206, 70206>>, <<70367, 70367>>, <<70371, 70378>>,
   <<70400, 70401>>, <<70459, 70460>>, <<70464, 70464>>, <<70502, 70508>>,
   <<70512, 70516>>, <<70712, 70719>>, <<70722, 70724>>, <<70726, 70726>>,
   <<70750, 70750>>, <<70835, 70840>>, <<70842, 70842>>, <<70847, 70848>>,
   <<70850, 70851>>, <<71090, 71093>>, <<71100, 71101>>, <<71103, 71104>>,
   <<71132, 71133>>, <<71219, 71226>>, <<71229, 71229>>, <<71231, 71232>>,
   <<71339, 71339>>, <<71341, 71341>>, <<71344, 71349>>, <<71351, 71351>>,
   <<71453, 71455>>, <<71458, 71461>>, <<71463, 71467>>, <<71727, 71735>>,
   <<71737, 71738>>, <<71995, 71996>>, <<71998, 71998>>, <<72003, 72003>>,
   <<72148, 72151>>, <<72154, 72155>>, <<72160, 72160>>, <<72193, 72202>>,
   <<72243, 72248>>, <<72251, 72254>>, <<72263, 72263>>, <<72273, 72278>>,
   <<72281, 72283>>, <<72330, 72342>>, <<72344, 72345>>, <<72752, 72758>>,
   <<72760, 72765>>, <<72767, 72767>>, <<72850, 72871>>, <<72874, 72880>>,
   <<72882, 72883>>, <<72885, 72886>>, <<73009, 73014>>, <<73018, 73018>>,
   <<73020, 73021>>, <<73023, 73029>>, <<73031, 73031>>, <<73104, 73105>>,
   <<73109, 73109>>, <<73111, 73111>>, <<73459, 73460>>, <<78896, 78904>>,
   <<92912, 92916>>, <<92976, 92982>>, <<92992, 92995>>, <<94031, 94031>>,
   <<94095, 94111>>, <<94176, 94177>>, <<94179, 94180>>, <<110576, 110579>>,
   <<110581, 110587>>, <<110589, 110590>>, <<113821, 113822>>,
   <<113824, 113827>>, <<118528, 118573>>, <<118576, 118598>>,
   <<119143, 119145>>, <<119155, 119170>>, <<119173, 119179>>,
   <<119210, 119213>>, <<119362, 119364>>, <<121344, 121398>>,
   <<121403, 121452>>, <<121461, 121461>>, <<121476, 121476>>,
   <<121499, 121503>>, <<121505, 121519>>, <<122880, 122886>>,
   <<122888, 122904>>, <<122907, 122913>>, <<122915, 122916>>,
   <<122918, 122922>>, <<123184, 123197>>, <<123566, 123566>>,
   <<123628, 123631>>, <<125136, 125142>>, <<125252, 125259>>,
   <<127995, 127999>>, <<917505, 917505>>, <<917536, 917631>>,
   <<917760, 917999>>}

\* the cased characters (Cased) that are not Case_Ignorable
CasedLetters ==
  {<<65, 90>>, <<97, 122>>, <<170, 170>>, <<181, 181>>, <<186, 186>>,
   <<192, 214>>, <<216, 246>>, <<248, 442>>, <<444, 447>>, <<452, 659>>,
   <<661, 687>>, <<880, 883>>, <<886, 887>>, <<891, 893>>, <<895, 895>>,
   <<902, 902>>, <<904, 906>>, <<908, 908>>, <<910, 929>>, <<931, 1013>>,
   <<1015, 1153>>, <<1162, 1327>>, <<1329, 1366>>, <<1376, 1416>>,
   <<4256, 4293>>, <<4295, 4295>>, <<4301, 4301>>, <<4304, 4346>>,
   <<4349, 4351>>, <<5024, 5109>>, <<5112, 5117>>, <<7296, 7304>>,
   <<7312, 7354>>, <<7357, 7359>>, <<7424, 7467>>, <<7531, 7543>>,
   <<7545, 7578>>, <<7680, 7957>>, <<7960, 7965>>, <<7968, 8005>>,
   <<8008, 8013>>, <<8016, 8023>>, <<8025, 8025>>, <<8027, 8027>>,
   <<8029, 8029>>, <<8031, 8061>>, <<8064, 8116>>, <<8118, 8124>>,
   <<8126, 8126>>, <<8130, 8132>>, <<8134, 8140>>, <<8144, 8147>>,
   <<8150, 8155>>, <<8160, 8172>>, <<8178, 8180>>, <<8182, 8188>>,
   <<8450, 8450>>, <<8455, 8455>>, <<8458, 8467>>, <<8469, 8469>>,
   <<8473, 8477>>, <<8484, 8484>>, <<8486, 8486>>, <<8488, 8488>>,
   <<8490, 8493>>, <<8495, 8500>>, <<8505, 8505>>, <<8508, 8511>>,
   <<8517, 8521>>, <<8526, 8526>>, <<8544, 8575>>, <<8579, 8580>>,
   <<9398, 9449>>, <<11264, 11387>>, <<11390, 11492>>, <<11499, 11502>>,
   <<11506, 11507>>, <<11520, 11557>>, <<11559, 11559>>, <<11565, 11565>>,
   <<42560, 42605>>, <<42624, 42651>>, <<42786, 42863>>, <<42865, 42887>>,
   <<42891, 42894>>, <<42896, 42954>>, <<42960, 42961>>, <<42963, 42963>>,
   <<42965, 42969>>, <<42997, 42998>>, <<43002, 43002>>, <<43824, 43866>>,
   <<43872, 43880>>, <<43888, 43967>>, <<64256, 64262>>, <<64275, 64279>>,
   <<65313, 65338>>, <<65345, 65370>>, <<66560, 66639>>, <<66736, 66771>>,
   <<66776, 66811>>, <<66928, 66938>>, <<66940, 66954>>, <<66956, 66962>>,
   <<66964, 66965>>, <<66967, 66977>>, <<66979, 66993>>, <<66995, 67001>>,
   <<67003, 67004>>, <<68736, 68786>>, <<68800, 68850>>, <<71840, 71903>>,
   <<93760, 93823>>, <<119808, 119892>>, <<119894, 119964>>,
   <<119966, 119967>>, <<119970, 119970>>, <<119973, 119974>>,
   <<119977, 119980>>, <<119982, 119993>>, <<119995, 119995>>,
   <<119997, 120003>>, <<120005, 120069>>, <<120071, 120074>>,
   <<120077, 120084>>, <<120086, 120092>>, <<120094, 120121>>,
   <<120123, 120126>>, <<120128, 120132>>, <<120134, 120134>>,
   <<120138, 120144>>, <<120146, 120485>>, <<120488, 120512>>,
   <<120514, 120538>>, <<120540, 120570>>, <<120572, 120596>>,
   <<120598, 120628>>, <<120630, 120654>>, <<120656, 120686>>,
   <<120688, 120712>>, <<120714, 120744>>, <<120746, 120770>>,
   <<120772, 120779>>, <<122624, 122633>>, <<122635, 122654>>,
   <<125184, 125251>>, <<127280, 127305>>, <<127312, 127337>>,
   <<127344, 127369>>}

\* a character against a set of a pattern, or against a class of characters
InRanges(rs, c) == \E r \in rs : r[1] <= c /\ c <= r[2]

\* the capital sigma at k is final: the nearest character before it that
\* is not ignorable is cased, and the nearest one after it is not
Final(k, ignorable, cased) ==
  LET before == {j \in 1..(k - 1) : ~ignorable[j]}
      after == {j \in (k + 1)..Len(cased) : ~ignorable[j]}
  IN  /\ before # {}
      /\ cased[CHOOSE j \in before : \A i \in before : i <= j]
      /\ \/ after = {}
         \/ ~cased[CHOOSE j \in after : \A i \in after : j <= i]

\* str.lower(): whether the capital sigma at k is the last letter of a word
FinalSigma(s, k) ==
  Final(k, [j \in 1..Len(s) |-> InRanges(CaseIgnorable, s[j])],
           [j \in 1..Len(s) |-> InRanges(CasedLetters, s[j])])

\* str.lower() of the character at k
LowerAt(s, k) ==
  IF s[k] = 304 THEN <<105, 775>>
  ELSE IF s[k] = 931 THEN <<IF FinalSigma(s, k) THEN 962 ELSE 963>>
  ELSE <<LowerChar(s[k])>>

RECURSIVE LowerFrom(_, _)
LowerFrom(s, k) == IF k > Len(s) THEN <<>> ELSE LowerAt(s, k) \o LowerFrom(s, k + 1)

\* str.lower()
Lower(s) == LowerFrom(s, 1)

\* re._casefix._EXTRA_CASES: the lowercase characters re.IGNORECASE takes
\* for one another
ExtraCases ==
  {<<105, 305>>, <<115, 383>>, <<181, 956>>, <<305, 105>>, <<383, 115>>,
   <<837, 953>>, <<837, 8126>>, <<912, 8147>>, <<944, 8163>>, <<946, 976>>,
   <<949, 1013>>, <<952, 977>>, <<953, 837>>, <<953, 8126>>, <<954, 1008>>,
   <<956, 181>>, <<960, 982>>, <<961, 1009>>, <<962, 963>>, <<963, 962>>,
   <<966, 981>>, <<976, 946>>, <<977, 952>>, <<981, 966>>, <<982, 960>>,
   <<1008, 954>>, <<1009, 961>>, <<1013, 949>>, <<1074, 7296>>, <<1076, 7297>>,
   <<1086, 7298>>, <<1089, 7299>>, <<1090, 7300>>, <<1090, 7301>>,
   <<1098, 7302>>, <<1123, 7303>>, <<7296, 1074>>, <<7297, 1076>>,
   <<7298, 1086>>, <<7299, 1089>>, <<7300, 1090>>, <<7300, 7301>>,
   <<7301, 1090>>, <<7301, 7300>>, <<7302, 1098>>, <<7303, 1123>>,
   <<7304, 42571>>, <<7777, 7835>>, <<7835, 7777>>, <<8126, 837>>,
   <<8126, 953>>, <<8147, 912>>, <<8163, 944>>, <<42571, 7304>>,
   <<64261, 64262>>, <<64262, 64261>>}

\* a lowercase character and the ones re.IGNORECASE takes for it
Equivalents(x) ==
  IF NoCase(x) THEN {x} ELSE {x} \cup {p[2] : p \in {q \in ExtraCases : q[1] = x}}

\* no character of the range is changed by LowerChar or has an equivalent
Caseless(r) ==
  /\ r[2] < 65 \/ r[1] > 90
  /\ \A t \in LowerRanges : r[2] < t[1] \/ r[1] > t[2]
  /\ \A q \in ExtraCases : q[1] < r[1] \/ q[1] > r[2]

\* re.compile(pattern, re.IGNORECASE) on a range of a set
\* (re._compiler._optimize_charset): its characters in lower case, with the
\* ones re._casefix gives for them, which for a range of Caseless is the
\* range itself
FoldedRange(r) ==
  IF Caseless(r) THEN {r}
  ELSE {<<x, x>> : x \in UNION {Equivalents(LowerChar(i)) : i \in r[1]..r[2]}}

\* re.compile(pattern, re.IGNORECASE): every literal character and every
\* set becomes the set of the lowercase characters it accepts
RECURSIVE IgnoreCase(_)
RECURSIVE IgnoreCaseAll(_)
IgnoreCase(re) ==
  CASE re.t = "lit" ->
         [t |-> "cat",
          xs |-> IgnoreCaseAll([k \in 1..Len(re.s) |->
                                  [t |-> "in", rs |-> {<<re.s[k], re.s[k]>>}]])]
    [] re.t = "in"  -> [re EXCEPT !.rs = UNION {FoldedRange(r) : r \in re.rs}]
    [] re.t = "any" -> re
    [] re.t = "rep" -> [re EXCEPT !.x = IgnoreCase(re.x)]
    [] OTHER -> [re EXCEPT !.xs = IgnoreCaseAll(re.xs)]

\* the patterns of a sequence, each compiled with re.IGNORECASE
IgnoreCaseAll(xs) ==
  IF xs = <<>> THEN <<>> ELSE <<IgnoreCase(Head(xs))>> \o IgnoreCaseAll(Tail(xs))

\* the text as a pattern compiled with re.IGNORECASE reads it: every
\* character in lower case, at its own position
Fold(txt) == [k \in 1..Len(txt) |-> LowerChar(txt[k])]

\* a literal of a pattern at position i of the text
LitAt(s, txt, i) ==
  /\ i + Len(s) - 1 <= Len(txt)
  /\ \A k \in 1..Len(s) : txt[i + k - 1] = s[k]

RECURSIVE Ends(_, _, _)
RECURSIVE EndsFrom(_, _, _)
RECURSIVE CatEnds(_, _, _, _)
RECURSIVE AltEnds(_, _, _, _)
RECURSIVE RepEnds(_, _, _, _, _)
RECURSIVE RepEndsFrom(_, _, _, _, _)

Ends(re, txt, i) ==
  CASE re.t = "lit" -> IF LitAt(re.s, txt, i) THEN <<i + Len(re.s)>> ELSE <<>>
    [] re.t = "in"  -> IF i <= Len(txt) /\ InRanges(re.rs, txt[i])
                       THEN <<i + 1>> ELSE <<>>
    [] re.t = "any" -> IF i <= Len(txt) /\ txt[i] # 10 THEN <<i + 1>> ELSE <<>>
    [] re.t = "cat" -> CatEnds(re.xs, 1, txt, <<i>>)
    [] re.t = "alt" -> AltEnds(re.xs, 1, txt, i)
    [] re.t = "rep" -> RepEnds(re, re.lo, re.hi, txt, i)

\* the ends of re from each of the starts, in order
EndsFrom(re, txt, starts) ==
  IF starts = <<>> THEN <<>>
  ELSE Ends(re, txt, Head(starts)) \o EndsFrom(re, txt, Tail(starts))

CatEnds(xs, k, txt, starts) ==
  IF k > Len(xs) THEN starts
  ELSE CatEnds(xs, k + 1, txt, EndsFrom(xs[k], txt, starts))

AltEnds(xs, k, txt, i) ==
  IF k > Len(xs) THEN <<>>
  ELSE Ends(xs[k], txt, i) \o AltEnds(xs, k + 1, txt, i)

\* greedy repeat: one more iteration is tried before stopping here
RepEnds(re, lo, hi, txt, i) ==
  LET once == SelectSeq(Ends(re.x, txt, i), LAMBDA e : e > i)
      more == IF ~re.inf /\ hi <= 0 THEN <<>>
              ELSE RepEndsFrom(re, lo - 1, hi - 1, txt, once)
      stop == IF lo <= 0 THEN <<i>> ELSE <<>>
  IN  more \o stop

RepEndsFrom(re, lo, hi, txt, starts) ==
  IF starts = <<>> THEN <<>>
  ELSE RepEnds(re, lo, hi, txt, Head(starts))
         \o RepEndsFrom(re, lo, hi, txt, Tail(starts))

NoMatch == [start |-> 0, end |-> 0]

\* the leftmost match at or after position from (re.search from a position)
RECURSIVE SearchFrom(_, _, _)
SearchFrom(re, txt, from) ==
  IF from > Len(txt) + 1 THEN NoMatch
  ELSE LET es == Ends(re, txt, from)
       IN  IF es # <<>> THEN [start |-> from, end |-> es[1]]
           ELSE SearchFrom(re, txt, from + 1)

\* re.search(pattern, text) is not None
Search(re, txt) == SearchFrom(re, txt, 1) # NoMatch

\* re.finditer: the non-overlapping matches, left to right
RECURSIVE FindIter(_, _, _)
FindIter(re, txt, from) ==
  LET m == SearchFrom(re, txt, from)
  IN  IF m = NoMatch THEN <<>>
      ELSE <<m>> \o FindIter(re, txt, IF m.end > m.start THEN m.end ELSE m.end + 1)

\* text[start:end] for positions of the model
Slice(s, start, end) == [k \in 1..(end - start) |-> s[start + k - 1]]

(***************************************************************************)
(* CalendarTask._parse_time_entity                                         *)
(***************************************************************************)
\* sub in s
Contains(s, sub) ==
  \E i \in 1..(Len(s) - Len(sub) + 1) : \A k \in 1..Len(sub) : s[i + k - 1] = sub[k]

\* the number a run of decimal digits writes
RECURSIVE Decimal(_)
Decimal(ds) ==
  IF ds = <<>> THEN 0
  ELSE Decimal(SubSeq(ds, 1, Len(ds) - 1)) * 10 + DigitValue(ds[Len(ds)])

\* int(s) of a run of decimal digits: leading zeros add nothing
ToInt(ds) ==
  LET written == {i \in 1..Len(ds) : DigitValue(ds[i]) # 0}
  IN  IF written = {} THEN 0
      ELSE Decimal(SubSeq(ds, CHOOSE i \in written : \A j \in written : i <= j, Len(ds)))

\* sys.int_max_str_digits of CPython 3.11: int() raises ValueError for a
\* string of more digits
int_max_str_digits == 4300

\* re.findall(r'\d+', time_str): the longest runs of decimal digits, left
\* to right
FindAllNumbers(s) ==
  LET starts == {i \in 1..Len(s) : IsDecimal(s[i]) /\ (i = 1 \/ ~IsDecimal(s[i - 1]))}
      ends == {j \in 1..Len(s) : IsDecimal(s[j]) /\ (j = Len(s) \/ ~IsDecimal(s[j + 1]))}
      Nth(set, k) == CHOOSE x \in set : Cardinality({y \in set : y < x}) = k - 1
  IN  [k \in 1..Cardinality(starts) |-> SubSeq(s, Nth(starts, k), Nth(ends, k))]

\* the conversion written as two independent tests, the second on the
\* hour the first one left
MeridiemTwice(is_pm, is_am, hour) ==
  LET shifted == IF is_pm /\ hour < 12 THEN hour + 12 ELSE hour
  IN  IF is_am /\ shifted = 12 THEN 0 ELSE shifted

\* the if / elif on is_pm and is_am
Meridiem(is_pm, is_am, hour) ==
  IF is_pm /\ hour < 12 THEN hour + 12
  ELSE IF is_am /\ hour = 12 THEN 0
  ELSE hour

\* int(numbers[0]) or int(numbers[1]) raised ValueError, which
\* _parse_time_entity does not catch
TimeRaised == [hour |-> 0, minute |-> 0, raised |-> TRUE, done |-> TRUE]

parse_time_entity(s) ==
  LET is_pm == Contains(s, <<50724, 54980>>) \/ Contains(Lower(s), <<112, 109>>)
      is_am == Contains(s, <<50724, 51204>>) \/ Contains(Lower(s), <<97, 109>>)
      numbers == FindAllNumbers(s)
  IN  IF numbers = <<>> THEN [hour |-> 9, minute |-> 0, raised |-> FALSE, done |-> TRUE]
      ELSE IF \/ Len(numbers[1]) > int_max_str_digits
              \/ Len(numbers) > 1 /\ Len(numbers[2]) > int_max_str_digits
           THEN TimeRaised
      ELSE [hour   |-> Meridiem(is_pm, is_am, ToInt(numbers[1])),
            minute |-> IF Len(numbers) > 1 THEN ToInt(numbers[2]) ELSE 0,
            raised |-> FALSE,
            done   |-> TRUE]

\* the time entities of the repository's tests and of the specification
SampleTimes ==
  { <<>>,
    <<50724, 54980, 32, 51, 49884>>,                         \* 오후 3시
    <<50724, 51204, 32, 49, 50, 49884>>,                     \* 오전 12시
    <<50724, 51204, 32, 57, 49884, 32, 51, 48, 48516>> }     \* 오전 9시 30분

\* the longest time entity typed word by word
MaxTimeLen == 5

\* the words typed: 오후, 오전, "PM", "am", "0", "1", "2", 시
TimeWords ==
  { <<50724, 54980>>, <<50724, 51204>>, <<80, 77>>, <<97, 109>>,
    <<48>>, <<49>>, <<50>>, <<49884>> }

InitTime ==
  /\ time_str \in SampleTimes
  /\ parsed_time = NoTime
  /\ IdleNLU /\ IdleNow /\ IdleDate /\ IdleCal /\ IdleEvent /\ IdleRepeat /\ IdleObjects

\* the entity grows by one word
TypeTimeWord ==
  /\ ~parsed_time.done
  /\ \E w \in TimeWords :
       /\ Len(time_str) + Len(w) <= MaxTimeLen
       /\ time_str' = time_str \o w
  /\ UNCHANGED <<parsed_time, notTime>>

\* CalendarTask._parse_time_entity(time_str)
ParseTime ==
  /\ ~parsed_time.done
  /\ parsed_time' = parse_time_entity(time_str)
  /\ UNCHANGED <<time_str, notTime>>

NextTime == TypeTimeWord \/ ParseTime

SpecTime == InitTime /\ [][NextTime]_vars

(***************************************************************************)
(* IntentClassifier: the rule tables                                       *)
(***************************************************************************)
INTENT_PATTERNS ==
  << [intent |-> "schedule_check", patterns |-> <<
       \* 일정
       Lit(<<51068, 51221>>),
       \* 스케줄
       Lit(<<49828, 52992, 51460>>),
       \* 약속
       Lit(<<50557, 49549>>),
       \* 오늘\s*뭐
       Cat(<<Lit(<<50724, 45720>>), RepFrom(Space, 0), Lit(<<47952>>)>>),
       \* 언제
       Lit(<<50616, 51228>>)
     >>],
     [intent |-> "schedule_add", patterns |-> <<
       \* 일정\s*(추가|등록|잡아)
       Cat(<<Lit(<<51068, 51221>>), RepFrom(Space, 0), Alt(<<Lit(<<52628, 44032>>), Lit(<<46321, 47197>>), Lit(<<51105, 50500>>)>>)>>),
       \* 약속\s*(잡아|만들어)
       Cat(<<Lit(<<50557, 49549>>), RepFrom(Space, 0), Alt(<<Lit(<<51105, 50500>>), Lit(<<47564, 46308, 50612>>)>>)>>)
     >>],
     [intent |-> "schedule_delete", patterns |-> <<
       \* 일정\s*(삭제|취소)
       Cat(<<Lit(<<51068, 51221>>), RepFrom(Space, 0), Alt(<<Lit(<<49325, 51228>>), Lit(<<52712, 49548>>)>>)>>),
       \* 약속\s*(취소|삭제)
       Cat(<<Lit(<<50557, 49549>>), RepFrom(Space, 0), Alt(<<Lit(<<52712, 49548>>), Lit(<<49325, 51228>>)>>)>>)
     >>],
     [intent |-> "email_check", patterns |-> <<
       \* 이메일\s*(확인|읽어)
       Cat(<<Lit(<<51060, 47700, 51068>>), RepFrom(Space, 0), Alt(<<Lit(<<54869, 51064>>), Lit(<<51069, 50612>>)>>)>>),
       \* 메일\s*(확인|읽어)
       Cat(<<Lit(<<47700, 51068>>), RepFrom(Space, 0), Alt(<<Lit(<<54869, 51064>>), Lit(<<51069, 50612>>)>>)>>),
       \* 새\s*메일
       Cat(<<Lit(<<49352>>), RepFrom(Space, 0), Lit(<<47700, 51068>>)>>)
     >>],
     [intent |-> "email_send", patterns |-> <<
       \* 이메일\s*(보내|전송)
       Cat(<<Lit(<<51060, 47700, 51068>>), RepFrom(Space, 0), Alt(<<Lit(<<48372, 45236>>), Lit(<<51204, 49569>>)>>)>>),
       \* 메일\s*(보내|전송)
       Cat(<<Lit(<<47700, 51068>>), RepFrom(Space, 0), Alt(<<Lit(<<48372, 45236>>), Lit(<<51204, 49569>>)>>)>>)
     >>],
     [intent |-> "file_search", patterns |-> <<
       \* 파일\s*(찾아|검색)
       Cat(<<Lit(<<54028, 51068>>), RepFrom(Space, 0), Alt(<<Lit(<<52286, 50500>>), Lit(<<44160, 49353>>)>>)>>),
       \* 어디.*있
       Cat(<<Lit(<<50612, 46356>>), RepFrom(AnyChar, 0), Lit(<<51080>>)>>),
       \* 폴더
       Lit(<<54260, 45908>>)
     >>],
     [intent |-> "file_open", patterns |-> <<
       \* 파일\s*(열어|실행)
       Cat(<<Lit(<<54028, 51068>>), RepFrom(Space, 0), Alt(<<Lit(<<50676, 50612>>), Lit(<<49892, 54665>>)>>)>>),
       \* 문서\s*열어
       Cat(<<Lit(<<47928, 49436>>), RepFrom(Space, 0), Lit(<<50676, 50612>>)>>)
     >>],
     [intent |-> "app_open", patterns |-> <<
       \* (실행|열어|켜).*(앱|프로그램|어플)
       Cat(<<Alt(<<Lit(<<49892, 54665>>), Lit(<<50676, 50612>>), Lit(<<53020>>)>>), RepFrom(AnyChar, 0), Alt(<<Lit(<<50545>>), Lit(<<54532, 47196, 44536, 47016>>), Lit(<<50612, 54540>>)>>)>>),
       \* (크롬|브라우저|메모장|계산기)
       Alt(<<Lit(<<53356, 47212>>), Lit(<<48652, 46972, 50864, 51200>>), Lit(<<47700, 47784, 51109>>), Lit(<<44228, 49328, 44592>>)>>)
     >>],
     [intent |-> "web_search", patterns |-> <<
       \* 검색
       Lit(<<44160, 49353>>),
       \* 찾아.*줘
       Cat(<<Lit(<<52286, 50500>>), RepFrom(AnyChar, 0), Lit(<<51480>>)>>),
       \* 알려.*줘
       Cat(<<Lit(<<50508, 47140>>), RepFrom(AnyChar, 0), Lit(<<51480>>)>>)
     >>],
     [intent |-> "weather_check", patterns |-> <<
       \* 날씨
       Lit(<<45216, 50472>>),
       \* 기온
       Lit(<<44592, 50728>>),
       \* 비\s*올까
       Cat(<<Lit(<<48708>>), RepFrom(Space, 0), Lit(<<50732, 44620>>)>>)
     >>],
     [intent |-> "timer_set", patterns |-> <<
       \* 타이머
       Lit(<<53440, 51060, 47672>>),
       \* 알람
       Lit(<<50508, 46988>>),
       \* 분\s*후
       Cat(<<Lit(<<48516>>), RepFrom(Space, 0), Lit(<<54980>>)>>)
     >>],
     [intent |-> "reminder_set", patterns |-> <<
       \* 리마인더
       Lit(<<47532, 47560, 51064, 45908>>),
       \* 알림
       Lit(<<50508, 47548>>),
       \* 까먹지
       Lit(<<44620, 47673, 51648>>)
     >>],
     [intent |-> "system_control", patterns |-> <<
       \* 볼륨
       Lit(<<48380, 47464>>),
       \* 음량
       Lit(<<51020, 47049>>),
       \* 밝기
       Lit(<<48157, 44592>>),
       \* 종료
       Lit(<<51333, 47308>>),
       \* 재부팅
       Lit(<<51116, 48512, 54021>>)
     >>] >>

ENTITY_PATTERNS ==
  << [type |-> "time", pattern |->  \* (\d{1,2}시\s*\d{0,2}분?|\d{1,2}:\d{2}|오전\s*\d{1,2}시|오후\s*\d{1,2}시)
       Alt(<<Cat(<<Rep(Digit, 1, 2), Lit(<<49884>>), RepFrom(Space, 0), Rep(Digit, 0, 2), Rep(Lit(<<48516>>), 0, 1)>>), Cat(<<Rep(Digit, 1, 2), Lit(<<58>>), Rep(Digit, 2, 2)>>), Cat(<<Lit(<<50724, 51204>>), RepFrom(Space, 0), Rep(Digit, 1, 2), Lit(<<49884>>)>>), Cat(<<Lit(<<50724, 54980>>), RepFrom(Space, 0), Rep(Digit, 1, 2), Lit(<<49884>>)>>)>>)],
     [type |-> "date", pattern |->  \* (오늘|내일|모레|\d{1,2}월\s*\d{1,2}일|다음\s*주|이번\s*주)
       Alt(<<Lit(<<50724, 45720>>), Lit(<<45236, 51068>>), Lit(<<47784, 47112>>), Cat(<<Rep(Digit, 1, 2), Lit(<<50900>>), RepFrom(Space, 0), Rep(Digit, 1, 2), Lit(<<51068>>)>>), Cat(<<Lit(<<45796, 51020>>), RepFrom(Space, 0), Lit(<<51452>>)>>), Cat(<<Lit(<<51060, 48264>>), RepFrom(Space, 0), Lit(<<51452>>)>>)>>)],
     [type |-> "duration", pattern |->  \* (\d+\s*(분|시간|초))
       Cat(<<RepFrom(Digit, 1), RepFrom(Space, 0), Alt(<<Lit(<<48516>>), Lit(<<49884, 44036>>), Lit(<<52488>>)>>)>>)],
     [type |-> "person", pattern |->  \* ([가-힣]{2,4}(?:씨|님|에게))
       Cat(<<Rep(In({<<44032, 55203>>}), 2, 4), Alt(<<Lit(<<50472>>), Lit(<<45784>>), Lit(<<50640, 44172>>)>>)>>)],
     [type |-> "app_name", pattern |->  \* (크롬|브라우저|메모장|계산기|엑셀|워드|파워포인트|비주얼\s*스튜디오)
       Alt(<<Lit(<<53356, 47212>>), Lit(<<48652, 46972, 50864, 51200>>), Lit(<<47700, 47784, 51109>>), Lit(<<44228, 49328, 44592>>), Lit(<<50641, 49472>>), Lit(<<50892, 46300>>), Lit(<<54028, 50892, 54252, 51064, 53944>>), Cat(<<Lit(<<48708, 51452, 50620>>), RepFrom(Space, 0), Lit(<<49828, 53916, 46356, 50724>>)>>)>>)],
     [type |-> "file_name", pattern |->  \* ([가-힣a-zA-Z0-9_]+\.(txt|pdf|doc|docx|xlsx|pptx|py|js))
       Cat(<<RepFrom(In({<<44032, 55203>>, <<97, 122>>, <<65, 90>>, <<48, 57>>, <<95, 95>>}), 1), Lit(<<46>>), Alt(<<Lit(<<116, 120, 116>>), Lit(<<112, 100, 102>>), Lit(<<100, 111, 99>>), Lit(<<100, 111, 99, 120>>), Lit(<<120, 108, 115, 120>>), Lit(<<112, 112, 116, 120>>), Lit(<<112, 121>>), Lit(<<106, 115>>)>>)>>)] >>

(***************************************************************************)
(* IntentClassifier._classify_with_rules                                   *)
(***************************************************************************)
\* the number of patterns of one intent that match
RECURSIVE CountMatches(_, _, _)
CountMatches(patterns, k, text_lower) ==
  IF k > Len(patterns) THEN 0
  ELSE (IF Search(patterns[k], text_lower) THEN 1 ELSE 0)
       + CountMatches(patterns, k + 1, text_lower)

\* min(score / len(patterns), 1.0), in thirtieths: every pattern list has 2, 3
\* or 5 patterns, so the quotient is exact
NormalizedScore(score, n) ==
  LET q == (score * 30) \div n IN IF q < 30 THEN q ELSE 30

\* the comparison with ties going to the later intent
BetterOrEqual(normalized_score, best_score) == normalized_score >= best_score

\* whether the loop replaces the best intent seen so far
Better(normalized_score, best_score) == normalized_score > best_score

\* the loop over INTENT_PATTERNS, from table entry k on
RECURSIVE ScanIntents(_, _, _)
ScanIntents(k, text_lower, best) ==
  IF k > Len(INTENT_PATTERNS) THEN best
  ELSE LET e == INTENT_PATTERNS[k]
           score == CountMatches(e.patterns, 1, text_lower)
           normalized_score == NormalizedScore(score, Len(e.patterns))
       IN  IF score > 0 /\ Better(normalized_score, best.score)
           THEN ScanIntents(k + 1, text_lower,
                            [intent |-> e.intent, score |-> normalized_score])
           ELSE ScanIntents(k + 1, text_lower, best)

\* the fallback with the length test off by one
FallbackFromFive(txt, best) ==
  IF best.intent = "unknown" /\ Len(txt) >= 5
  THEN [intent |-> "llm_chat", score |-> 15]
  ELSE best

\* the llm_chat fallback: score 0.5, in thirtieths
Fallback(txt, best) ==
  IF best.intent = "unknown" /\ Len(txt) > 5
  THEN [intent |-> "llm_chat", score |-> 15]
  ELSE best

\* the calibration with the floor left out of the slope: 0.3 + best_score * 0.9
ConfidenceSteep(best_score) == 300 + best_score * 30

\* 0.3 + best_score * 0.6, in thousandths (best_score in thirtieths)
Confidence(best_score) == 300 + best_score * 20

classify_intent(txt) ==
  LET best == Fallback(txt, ScanIntents(1, Lower(txt),
                                        [intent |-> "unknown", score |-> 0]))
  IN  [intent |-> best.intent, confidence |-> Confidence(best.score)]

(***************************************************************************)
(* IntentClassifier.extract_entities                                       *)
(***************************************************************************)
\* the entity record with match.start() written for both ends
EntitiesOfStartTwice(type, matches, txt) ==
  [k \in 1..Len(matches) |->
     [type  |-> type,
      value |-> Slice(txt, matches[k].start, matches[k].end),
      start |-> matches[k].start - 1,
      end   |-> matches[k].start - 1]]

\* one entity per match; start and end are the str indices of the source
EntitiesOf(type, matches, txt) ==
  [k \in 1..Len(matches) |->
     [type  |-> type,
      value |-> Slice(txt, matches[k].start, matches[k].end),
      start |-> matches[k].start - 1,
      end   |-> matches[k].end - 1]]

\* the entity patterns as re compiles them, once, under re.IGNORECASE
CompiledEntityPatterns ==
  IgnoreCaseAll([k \in 1..Len(ENTITY_PATTERNS) |-> ENTITY_PATTERNS[k].pattern])

RECURSIVE ExtractFrom(_, _)
ExtractFrom(k, txt) ==
  IF k > Len(ENTITY_PATTERNS) THEN <<>>
  ELSE EntitiesOf(ENTITY_PATTERNS[k].type,
                  FindIter(CompiledEntityPatterns[k], Fold(txt), 1), txt)
       \o ExtractFrom(k + 1, txt)

extract_entities(txt) == ExtractFrom(1, txt)

(***************************************************************************)
(* IntentClassifier.analyze, with no trained model loaded (rule based)     *)
(***************************************************************************)
analyze(txt) ==
  LET c == classify_intent(txt)
  IN  [intent |-> c.intent, intent_confidence |-> c.confidence,
       entities |-> extract_entities(txt), done |-> TRUE]

\* the utterances of the repository's tests
SampleTexts ==
  { <<>>,
    \* 오늘 일정 알려줘
    <<50724, 45720, 32, 51068, 51221, 32, 50508, 47140, 51480>>,
    \* 내일 오후 3시에 회의 잡아줘
    <<45236, 51068, 32, 50724, 54980, 32, 51, 49884, 50640, 32, 54924, 51032, 32,
      51105, 50500, 51480>>,
    \* 새 이메일 확인해줘
    <<49352, 32, 51060, 47700, 51068, 32, 54869, 51064, 54644, 51480>>,
    \* 새 이메일 있어?
    <<49352, 32, 51060, 47700, 51068, 32, 51080, 50612, 63>>,
    \* 파이썬이 뭐야?
    <<54028, 51060, 50028, 51060, 32, 47952, 50556, 63>>,
    \* 날씨 어때?
    <<45216, 50472, 32, 50612, 46412, 63>>,
    \* 이건 정말 이상한 문장이네
    <<51060, 44148, 32, 51221, 47568, 32, 51060, 49345, 54620, 32, 47928, 51109,
      51060, 45348>>,
    \* 내일 오후 3시에 김철수씨와 회의 일정 잡아줘
    <<45236, 51068, 32, 50724, 54980, 32, 51, 49884, 50640, 32, 44608, 52384, 49688,
      50472, 50752, 32, 54924, 51032, 32, 51068, 51221, 32, 51105, 50500, 51480>>,
    \* 내일 오후 3시에 회의
    <<45236, 51068, 32, 50724, 54980, 32, 51, 49884, 50640, 32, 54924, 51032>> }

\* the longest utterance typed word by word
MaxLen == 6

\* the words typed: 일정, 약속, 삭제, 검색, 날씨, 보내, 이메일, 알려줘, " "
IntentWords ==
  { <<51068, 51221>>, <<50557, 49549>>, <<49325, 51228>>, <<44160, 49353>>,
    <<45216, 50472>>, <<48372, 45236>>, <<51060, 47700, 51068>>,
    <<50508, 47140, 51480>>, <<32>> }

\* the longest utterance typed from the entity words
MaxEntityLen == 4

\* the words typed: 오후, 내일, 철수, ".PY", " ", "3", 시, 분, 씨, "a"
EntityWords ==
  { <<50724, 54980>>, <<45236, 51068>>, <<52384, 49688>>, <<46, 80, 89>>,
    <<32>>, <<51>>, <<49884>>, <<48516>>, <<50472>>, <<97>> }

InitNLU ==
  /\ text \in SampleTexts
  /\ analysis = NoAnalysis
  /\ IdleTime /\ IdleNow /\ IdleDate /\ IdleCal /\ IdleEvent /\ IdleRepeat /\ IdleObjects

\* the user extends the utterance by one word
TypeIntentWord ==
  /\ ~analysis.done
  /\ \E w \in IntentWords :
       /\ Len(text) + Len(w) <= MaxLen
       /\ text' = text \o w
  /\ UNCHANGED <<analysis, notNLU>>

\* POST /analyze: IntentClassifier.analyze(text)
Analyze ==
  /\ ~analysis.done
  /\ analysis' = analyze(text)
  /\ UNCHANGED <<text, notNLU>>

NextNLU == TypeIntentWord \/ Analyze

SpecNLU == InitNLU /\ [][NextNLU]_vars

\* the user extends the utterance by one word that carries an entity
TypeEntityWord ==
  /\ ~analysis.done
  /\ \E w \in EntityWords :
       /\ Len(text) + Len(w) <= MaxEntityLen
       /\ text' = text \o w
  /\ UNCHANGED <<analysis, notNLU>>

NextEntities == TypeEntityWord \/ Analyze

SpecEntities == InitNLU /\ [][NextEntities]_vars


(***************************************************************************)
(* datetime: the proleptic Gregorian calendar, as the datetime module      *)
(* computes it (day ordinals, 0001-01-01 being day 1)                      *)
(***************************************************************************)
IsLeap(y) == y % 4 = 0 /\ (y % 100 # 0 \/ y % 400 = 0)

DaysInMonth(y, m) ==
  IF m = 2 THEN (IF IsLeap(y) THEN 29 ELSE 28)
  ELSE IF m \in {4, 6, 9, 11} THEN 30 ELSE 31

DaysBeforeYear(y) ==
  LET p == y - 1 IN p * 365 + p \div 4 - p \div 100 + p \div 400

RECURSIVE DaysBeforeMonth(_, _)
DaysBeforeMonth(y, m) ==
  IF m <= 1 THEN 0 ELSE DaysBeforeMonth(y, m - 1) + DaysInMonth(y, m - 1)

\* date.toordinal()
ToOrdinal(y, m, d) == DaysBeforeYear(y) + DaysBeforeMonth(y, m) + d

\* date.fromordinal(ord)
FromOrdinal(ord) ==
  LET n0 == ord - 1
      n400 == n0 \div 146097
      r400 == n0 % 146097
      n100 == r400 \div 36524
      r100 == r400 % 36524
      n4 == r100 \div 1461
      r4 == r100 % 1461
      n1 == r4 \div 365
      n == r4 % 365
      year == n400 * 400 + 1 + n100 * 100 + n4 * 4 + n1
  IN  IF n1 = 4 \/ n100 = 4
      THEN [year |-> year - 1, month |-> 12, day |-> 31]
      ELSE LET est == (n + 50) \div 32
               month == IF DaysBeforeMonth(year, est) > n THEN est - 1 ELSE est
           IN  [year |-> year, month |-> month,
                day |-> n - DaysBeforeMonth(year, month) + 1]

\* dt + timedelta(days = k); a result whose year is outside 1..9999 stands
\* for the OverflowError the addition raises
AddDays(dt, k) ==
  LET d == FromOrdinal(ToOrdinal(dt.year, dt.month, dt.day) + k)
  IN  [dt EXCEPT !.year = d.year, !.month = d.month, !.day = d.day]

\* the addition that gave dt raised OverflowError: datetime has the years
\* 1..9999
Overflows(dt) == dt.year < 1 \/ dt.year > 9999

\* dt.weekday(): Monday is 0
Weekday(dt) == (ToOrdinal(dt.year, dt.month, dt.day) + 6) % 7

\* datetime(y, m, d) raises ValueError
BadDate(y, m, d) ==
  \/ y < 1 \/ y > 9999
  \/ m < 1 \/ m > 12
  \/ d < 1 \/ d > DaysInMonth(y, m)

(***************************************************************************)
(* datetime.strptime for the formats the source uses                       *)
(***************************************************************************)
\* %Y : \d\d\d\d
YearRe == Rep(Digit, 4, 4)

\* %m : 1[0-2]|0[1-9]|[1-9]
MonthRe ==
  Alt(<<Cat(<<Lit(<<49>>), In({<<48, 50>>})>>),
        Cat(<<Lit(<<48>>), In({<<49, 57>>})>>),
        In({<<49, 57>>})>>)

\* %d : 3[0-1]|[1-2]\d|0[1-9]|[1-9]| [1-9]
DayRe ==
  Alt(<<Cat(<<Lit(<<51>>), In({<<48, 49>>})>>),
        Cat(<<In({<<49, 50>>}), Digit>>),
        Cat(<<Lit(<<48>>), In({<<49, 57>>})>>),
        In({<<49, 57>>}),
        Cat(<<Lit(<<32>>), In({<<49, 57>>})>>)>>)

FieldRe(f) == IF f = "Y" THEN YearRe ELSE IF f = "m" THEN MonthRe ELSE DayRe

\* the formats LLMAgent._parse_date tries, in order: the directives, the
\* character between them, and the literal text after the last one
Formats ==
  << [fields |-> <<"Y", "m", "d">>, sep |-> <<45>>, tail |-> <<>>],     \* %Y-%m-%d
     [fields |-> <<"Y", "m", "d">>, sep |-> <<47>>, tail |-> <<>>],     \* %Y/%m/%d
     [fields |-> <<"m", "d">>, sep |-> <<47>>, tail |-> <<>>],          \* %m/%d
     [fields |-> <<"m", "d">>, sep |-> <<45>>, tail |-> <<>>],          \* %m-%d
     [fields |-> <<"d">>, sep |-> <<>>, tail |-> <<51068>>] >>          \* %d일

\* the regular expression strptime compiles a format to
FormatRe(f) ==
  Cat([k \in 1..(2 * Len(f.fields)) |->
         IF k % 2 = 1 THEN FieldRe(f.fields[(k + 1) \div 2])
         ELSE IF k = 2 * Len(f.fields) THEN Lit(f.tail)
         ELSE Lit(f.sep)])

\* the formats as strptime compiles them, once, under re.IGNORECASE
CompiledFormats == IgnoreCaseAll([k \in 1..Len(Formats) |-> FormatRe(Formats[k])])

\* s.split(sep) for a separator of one character; <<s>> without a separator
RECURSIVE SplitOn(_, _)
SplitOn(s, sep) ==
  IF sep = <<>> \/ ~Contains(s, sep) THEN <<s>>
  ELSE LET i == CHOOSE i \in 1..Len(s) :
                  s[i] = sep[1] /\ \A k \in 1..(i - 1) : s[k] # sep[1]
       IN  <<SubSeq(s, 1, i - 1)>> \o SplitOn(SubSeq(s, i + 1, Len(s)), sep)

\* int() of a matched field (a day may be written with a leading space)
FieldValue(part) == ToInt(SelectSeq(part, LAMBDA c : IsDecimal(c)))

StrpFailed == [ok |-> FALSE, year |-> 0, month |-> 0, day |-> 0]

\* datetime.strptime(s, f): ok is FALSE where it raises ValueError.  A
\* directive the format lacks keeps its default (1900, 1, 1).
StrpTime(s, f) ==
  LET es == Ends(CompiledFormats[CHOOSE k \in 1..Len(Formats) : Formats[k] = f], Fold(s), 1)
  IN  IF es = <<>> \/ es[1] # Len(s) + 1 THEN StrpFailed
      ELSE LET parts == SplitOn(SubSeq(s, 1, Len(s) - Len(f.tail)), f.sep)
               Val(name, default) ==
                 IF \E k \in 1..Len(f.fields) : f.fields[k] = name
                 THEN FieldValue(parts[CHOOSE k \in 1..Len(f.fields) : f.fields[k] = name])
                 ELSE default
               y == Val("Y", 1900)
               m == Val("m", 1)
               d == Val("d", 1)
           IN  IF BadDate(y, m, d) THEN StrpFailed
               ELSE [ok |-> TRUE, year |-> y, month |-> m, day |-> d]

(***************************************************************************)
(* LLMAgent._parse_date                                                    *)
(***************************************************************************)
IsSpace(c) == InRanges(Space.rs, c)

\* str.strip()
RECURSIVE Strip(_)
Strip(s) ==
  IF s = <<>> THEN s
  ELSE IF IsSpace(s[1]) THEN Strip(Tail(s))
  ELSE IF IsSpace(s[Len(s)]) THEN Strip(SubSeq(s, 1, Len(s) - 1))
  ELSE s

\* the parsed date with the year 1900 taken for "no year"
ParsedYear(parsed_year, current_year) ==
  IF parsed_year = 1900 THEN current_year ELSE parsed_year

\* the loop over the formats, from format k on
RECURSIVE TryFormats(_, _, _)
TryFormats(s, k, clock) ==
  IF k > Len(Formats) THEN clock
  ELSE LET parsed == StrpTime(s, Formats[k])
           year == ParsedYear(parsed.year, clock.year)
       IN  IF parsed.ok /\ ~BadDate(year, parsed.month, parsed.day)
           THEN DateTime(year, parsed.month, parsed.day, 0, 0)
           ELSE TryFormats(s, k + 1, clock)

\* now + timedelta(days=1) is not caught in _parse_date: a date that
\* Overflows stands for the OverflowError the caller gets
parse_date(str, clock) ==
  IF str = <<>> THEN clock
  ELSE LET s == Strip(Lower(str))
       IN  IF s = <<116, 111, 100, 97, 121>> THEN clock                          \* today
           ELSE IF s = <<116, 111, 109, 111, 114, 114, 111, 119>>               \* tomorrow
                THEN AddDays(clock, 1)
           ELSE TryFormats(s, 1, clock)

(***************************************************************************)
(* CalendarTask._parse_date_entity                                         *)
(***************************************************************************)
\* KeywordDays with "next week" read as the next day
KeywordDaysWeekAsDay(s) ==
  IF s \in {<<50724, 45720>>, <<116, 111, 100, 97, 121>>} THEN 0
  ELSE IF s \in {<<45236, 51068>>, <<116, 111, 109, 111, 114, 114, 111, 119>>}
       THEN 1
  ELSE IF s \in {<<47784, 47112>>,
                 <<100, 97, 121, 32, 97, 102, 116, 101, 114, 32,
                   116, 111, 109, 111, 114, 114, 111, 119>>} THEN 2
  ELSE IF \/ Contains(s, <<45796, 51020, 32, 51452>>)
          \/ Contains(s, <<110, 101, 120, 116, 32, 119, 101, 101, 107>>)
       THEN 1
  ELSE 0 - 1

\* the days a keyword adds to today, -1 for a token that is no keyword
KeywordDays(s) ==
  IF s \in {<<50724, 45720>>, <<116, 111, 100, 97, 121>>} THEN 0             \* 오늘, today
  ELSE IF s \in {<<45236, 51068>>, <<116, 111, 109, 111, 114, 114, 111, 119>>}
       THEN 1                                                                 \* 내일, tomorrow
  ELSE IF s \in {<<47784, 47112>>,                                            \* 모레
                 <<100, 97, 121, 32, 97, 102, 116, 101, 114, 32,
                   116, 111, 109, 111, 114, 114, 111, 119>>} THEN 2           \* day after tomorrow
  ELSE IF \/ Contains(s, <<45796, 51020, 32, 51452>>)                         \* 다음 주
          \/ Contains(s, <<110, 101, 120, 116, 32, 119, 101, 101, 107>>)      \* next week
       THEN 7
  ELSE 0 - 1

\* lib is what dateutil's parser.parse(date_str) does with the token; today
\* + timedelta(...) is outside the try: a date that Overflows stands for the
\* OverflowError the caller gets
parse_date_entity(str, today, lib) ==
  LET days == KeywordDays(Lower(str))
  IN  IF days >= 0 THEN AddDays(today, days)
      ELSE IF lib.ok THEN lib.date
      ELSE today

\* date_parser.parse raises, or returns a datetime
Raises == [ok |-> FALSE, date |-> DateTime(1, 1, 1, 0, 0)]

Returns(dt) == [ok |-> TRUE, date |-> dt]

\* dateutil is no part of the repository.  It reads the clock itself: the
\* year it took when it was imported, and the day of the call for its
\* default date; these are the years and the days of the month it may read
ClockYears == 2023..2026

ClockDays == 1..31

\* the runs of digits of a token written as two or three runs of one to
\* four ASCII digits joined by "-" or by "/", or as three joined by ".";
\* <<>> for any other token
DateutilFields(str) ==
  LET IsRun(p) == Len(p) \in 1..4 /\ \A k \in 1..Len(p) : p[k] >= 48 /\ p[k] <= 57
      Fits(ps, ns) == Len(ps) \in ns /\ \A k \in 1..Len(ps) : IsRun(ps[k])
  IN  IF Fits(SplitOn(str, <<45>>), {2, 3}) THEN SplitOn(str, <<45>>)
      ELSE IF Fits(SplitOn(str, <<47>>), {2, 3}) THEN SplitOn(str, <<47>>)
      ELSE IF Fits(SplitOn(str, <<46>>), {3}) THEN SplitOn(str, <<46>>)
      ELSE <<>>

\* dateutil's _ymd.append and _ymd.resolve_ymd (yearfirst and dayfirst are
\* False): which run is the year, the month and the day, -1 for the one the
\* token leaves out; a run of more than two digits is a year written with
\* its century, and a second such run is an error
ResolveYmd(fields) ==
  LET v == [k \in 1..Len(fields) |-> ToInt(fields[k])]
      long == {k \in 1..Len(fields) : Len(fields[k]) > 2}
      Ymd(y, m, d) == [ok |-> Cardinality(long) <= 1, century |-> long # {},
                       year |-> y, month |-> m, day |-> d]
  IN  IF Len(v) = 2
        THEN IF v[1] > 31 THEN Ymd(v[1], v[2], 0 - 1)
             ELSE IF v[2] > 31 THEN Ymd(v[2], v[1], 0 - 1)
             ELSE Ymd(0 - 1, v[1], v[2])
        ELSE IF v[1] > 31 \/ 1 \in long THEN Ymd(v[1], v[2], v[3])
             ELSE IF v[1] > 12 THEN Ymd(v[3], v[2], v[1])
             ELSE Ymd(v[3], v[1], v[2])

\* parserinfo.convertyear: a year written without its century is taken
\* within fifty years of the library's year
ConvertYear(year, century, lib_year) ==
  IF year >= 100 \/ century THEN year
  ELSE LET y == year + (lib_year \div 100) * 100
       IN  IF y >= lib_year + 50 THEN y - 100
           ELSE IF y < lib_year - 50 THEN y + 100
           ELSE y

\* parser.parse on a token of DateutilFields: the fields the token leaves
\* out come from the default, today at midnight by the library's clock,
\* with its day cut to the length of the month
DateutilParse(fields, lib_year, lib_day) ==
  LET res == ResolveYmd(fields)
      year == IF res.year < 0 THEN lib_year
              ELSE ConvertYear(res.year, res.century, lib_year)
      month == res.month
      day == IF res.day >= 0 THEN res.day
             ELSE IF lib_day > DaysInMonth(year, month)
               THEN DaysInMonth(year, month)
               ELSE lib_day
  IN  IF ~res.ok \/ BadDate(year, month, day) THEN Raises
      ELSE Returns(DateTime(year, month, day, 0, 0))

\* the words the library knows (dateutil.parser.parserinfo: JUMP, WEEKDAYS,
\* MONTHS, HMS, AMPM, UTCZONE, PERTAIN), in lower case:
\* a ad am and apr april at aug august dec december feb february fri friday
\* gmt h hour hours jan january jul july jun june m mar march may minute
\* minutes mon monday nd nov november oct october of on p pm rd s sat
\* saturday second seconds sep sept september st sun sunday t th thu
\* thursday tue tuesday utc wed wednesday z
LibraryWords ==
  {<<97>>, <<97, 100>>, <<97, 109>>, <<97, 110, 100>>, <<97, 112, 114>>,
   <<97, 112, 114, 105, 108>>, <<97, 116>>, <<97, 117, 103>>,
   <<97, 117, 103, 117, 115, 116>>, <<100, 101, 99>>,
   <<100, 101, 99, 101, 109, 98, 101, 114>>, <<102, 101, 98>>,
   <<102, 101, 98, 114, 117, 97, 114, 121>>, <<102, 114, 105>>,
   <<102, 114, 105, 100, 97, 121>>, <<103, 109, 116>>, <<104>>,
   <<104, 111, 117, 114>>, <<104, 111, 117, 114, 115>>, <<106, 97, 110>>,
   <<106, 97, 110, 117, 97, 114, 121>>, <<106, 117, 108>>,
   <<106, 117, 108, 121>>, <<106, 117, 110>>, <<106, 117, 110, 101>>, <<109>>,
   <<109, 97, 114>>, <<109, 97, 114, 99, 104>>, <<109, 97, 121>>,
   <<109, 105, 110, 117, 116, 101>>, <<109, 105, 110, 117, 116, 101, 115>>,
   <<109, 111, 110>>, <<109, 111, 110, 100, 97, 121>>, <<110, 100>>,
   <<110, 111, 118>>, <<110, 111, 118, 101, 109, 98, 101, 114>>,
   <<111, 99, 116>>, <<111, 99, 116, 111, 98, 101, 114>>, <<111, 102>>,
   <<111, 110>>, <<112>>, <<112, 109>>, <<114, 100>>, <<115>>,
   <<115, 97, 116>>, <<115, 97, 116, 117, 114, 100, 97, 121>>,
   <<115, 101, 99, 111, 110, 100>>, <<115, 101, 99, 111, 110, 100, 115>>,
   <<115, 101, 112>>, <<115, 101, 112, 116>>,
   <<115, 101, 112, 116, 101, 109, 98, 101, 114>>, <<115, 116>>,
   <<115, 117, 110>>, <<115, 117, 110, 100, 97, 121>>, <<116>>, <<116, 104>>,
   <<116, 104, 117>>, <<116, 104, 117, 114, 115, 100, 97, 121>>,
   <<116, 117, 101>>, <<116, 117, 101, 115, 100, 97, 121>>, <<117, 116, 99>>,
   <<119, 101, 100>>, <<119, 101, 100, 110, 101, 115, 100, 97, 121>>, <<122>>}

\* an ASCII letter or a Hangul syllable
IsLetter(c) ==
  (c >= 65 /\ c <= 90) \/ (c >= 97 /\ c <= 122) \/ (c >= 44032 /\ c <= 55203)

\* the tokens the library is sure to raise on: the empty token holds no
\* date, and neither does a token with a word that is none of the
\* library's and cannot be the name of a time zone (up to five capitals)
NoDateIn(str) ==
  \/ str = <<>>
  \/ \E i \in 1..Len(str), j \in 1..Len(str) :
       /\ i <= j
       /\ \A k \in i..j : IsLetter(str[k])
       /\ i = 1 \/ ~IsLetter(str[i - 1])
       /\ j = Len(str) \/ ~IsLetter(str[j + 1])
       /\ Lower(SubSeq(str, i, j)) \notin LibraryWords
       /\ ~(j - i < 5 /\ \A k \in i..j : str[k] >= 65 /\ str[k] <= 90)

\* every datetime, to the minute
AnyDateTime ==
  {dt \in [year : 1..9999, month : 1..12, day : 1..31, hour : 0..23, minute : 0..59] :
     dt.day <= DaysInMonth(dt.year, dt.month)}

\* what date_parser.parse(date_str) may do: for a token of digits what
\* DateutilParse gives under some reading of the clock; on a token of
\* NoDateIn it raises; for any other token (a month name, a time of day, a
\* single number, ...) the model does not follow the library: it raises or
\* returns some datetime
DateutilOutcomes(str) ==
  IF DateutilFields(str) # <<>>
    THEN {DateutilParse(DateutilFields(str), y, d) : y \in ClockYears, d \in ClockDays}
  ELSE IF NoDateIn(str) THEN {Raises}
  ELSE {Raises} \cup [ok : {TRUE}, date : AnyDateTime]

\* the instants the clock is read at
Nows ==
  { DateTime(2024, 2, 28, 14, 30), DateTime(2024, 12, 15, 9, 0),
    DateTime(2024, 12, 31, 23, 59), DateTime(2023, 2, 28, 0, 0),
    DateTime(2025, 1, 10, 8, 5), DateTime(2024, 1, 1, 0, 0),
    DateTime(2024, 2, 29, 12, 0), DateTime(2024, 3, 2, 18, 45) }

\* today, tomorrow, 오늘, 내일, 모레, 다음 주, day after tomorrow, next week,
\* Tomorrow, " today ", 다음 주 월요일, 회의, and the empty token
KeywordTokens ==
  { <<116, 111, 100, 97, 121>>, <<116, 111, 109, 111, 114, 114, 111, 119>>,
    <<50724, 45720>>, <<45236, 51068>>, <<47784, 47112>>,
    <<45796, 51020, 32, 51452>>,
    <<100, 97, 121, 32, 97, 102, 116, 101, 114, 32, 116, 111, 109, 111, 114, 114, 111, 119>>,
    <<110, 101, 120, 116, 32, 119, 101, 101, 107>>,
    <<84, 111, 109, 111, 114, 114, 111, 119>>,
    <<32, 116, 111, 100, 97, 121, 32>>,
    <<45796, 51020, 32, 51452, 32, 50900, 50836, 51068>>,
    <<54924, 51032>>, <<>> }

\* 2024, 1900, 2023
YearFields == { <<50, 48, 50, 52>>, <<49, 57, 48, 48>>, <<50, 48, 50, 51>> }

\* 02, 2, 04, 12, 13
MonthFields == { <<48, 50>>, <<50>>, <<48, 52>>, <<49, 50>>, <<49, 51>> }

\* 05, 29, 30, 31, 32
DayFields == { <<48, 53>>, <<50, 57>>, <<51, 48>>, <<51, 49>>, <<51, 50>> }

\* "-" and "/"
Separators == { <<45>>, <<47>> }

\* the tokens written in (or near) the explicit formats
FormatTokens ==
  {y \o sep \o m \o sep \o d :
     y \in YearFields, sep \in Separators, m \in MonthFields, d \in DayFields}
  \cup {m \o sep \o d : sep \in Separators, m \in MonthFields, d \in DayFields}
  \cup {d \o <<51068>> : d \in DayFields}

InitDate ==
  /\ now \in Nows
  /\ date_str \in KeywordTokens \cup FormatTokens
  /\ parsed_date = NoDate
  /\ IdleNLU /\ IdleTime /\ IdleCal /\ IdleEvent /\ IdleRepeat /\ IdleObjects

\* what date_parser.parse does in _parse_date_entity(date_str); it is not
\* called when the token holds a keyword
LibFor(str) ==
  IF KeywordDays(Lower(str)) >= 0 THEN {Raises} ELSE DateutilOutcomes(str)

\* what a parser returned, or that it raised OverflowError
Parsed(by, dt) ==
  IF Overflows(dt) THEN [NoDate EXCEPT !.by = by, !.raised = TRUE]
  ELSE [by |-> by, date |-> dt, raised |-> FALSE]

\* CalendarTask._parse_date_entity(date_str)
ParseDateEntity ==
  /\ parsed_date.by = ""
  /\ \E lib \in LibFor(date_str) :
       parsed_date' = Parsed("task", parse_date_entity(date_str, now, lib))
  /\ UNCHANGED <<now, date_str, notDate>>

\* LLMAgent._parse_date(date_str)
ParseDate ==
  /\ parsed_date.by = ""
  /\ parsed_date' = Parsed("agent", parse_date(date_str, now))
  /\ UNCHANGED <<now, date_str, notDate>>

NextDate == ParseDateEntity \/ ParseDate

SpecDate == InitDate /\ [][NextDate]_vars

(***************************************************************************)
(* LLMAgent._check_calendar: the range of dates a calendar query covers    *)
(***************************************************************************)
\* args.get(key, default): an argument is <<>> when absent, <<v>> when given
Get(opt, default) == IF opt = <<>> THEN default ELSE opt[1]

\* "if month:" -- given and not 0
TruthyInt(opt) == opt # <<>> /\ opt[1] # 0

\* "if start_date_str:" -- given and not empty
TruthyStr(opt) == opt # <<>> /\ opt[1] # <<>>

\* datetime.strptime(s, "%Y-%m-%d")
StrpYmd(s) == StrpTime(s, Formats[1])

AsDate(p) == DateTime(p.year, p.month, p.day, 0, 0)

Resolved(start, end, label) ==
  [status |-> "ok", start |-> start, end |-> end, label |-> label,
   query |-> IF start.year = end.year /\ start.month = end.month /\ start.day = end.day
             THEN "get_events_for_date" ELSE "get_events_for_range"]

\* the except clause around the whole method: the error message is returned
Failed == [NoRange EXCEPT !.status = "error"]

\* the range from start to end, or the error message when an addition
\* that led to them raised OverflowError
ResolvedSums(sums, start, end, label) ==
  IF \E k \in 1..Len(sums) : Overflows(sums[k]) THEN Failed
  ELSE Resolved(start, end, label)

\* period_type == "day"
DayRange(start_date_str, relative, clock) ==
  IF TruthyStr(start_date_str)
  THEN LET p == StrpYmd(start_date_str[1])
           start == IF p.ok THEN AsDate(p) ELSE clock
       IN  Resolved(start, start, "%Y-%m-%d")
  ELSE IF relative \in {"today", "current"} THEN Resolved(clock, clock, "today")
  ELSE IF relative \in {"tomorrow", "next"}
       THEN ResolvedSums(<<AddDays(clock, 1)>>, AddDays(clock, 1), AddDays(clock, 1),
                         "tomorrow")
  ELSE IF relative = "day_after"
       THEN ResolvedSums(<<AddDays(clock, 2)>>, AddDays(clock, 2), AddDays(clock, 2),
                         "day after tomorrow")
  ELSE IF relative = "previous"
       THEN ResolvedSums(<<AddDays(clock, 0 - 1)>>, AddDays(clock, 0 - 1),
                         AddDays(clock, 0 - 1), "yesterday")
  ELSE Resolved(clock, clock, "today")

\* WeekRange with the week starting on Sunday
WeekRangeFromSunday(relative, clock) ==
  LET monday == AddDays(clock, 0 - ((Weekday(clock) + 1) % 7))
      start == IF relative = "next" THEN AddDays(monday, 7)
               ELSE IF relative = "previous" THEN AddDays(monday, 0 - 7)
               ELSE monday
      label == IF relative = "next" THEN "next week"
               ELSE IF relative = "previous" THEN "last week"
               ELSE "this week"
  IN  ResolvedSums(<<monday, start, AddDays(start, 6)>>, start, AddDays(start, 6), label)

\* period_type == "week": now - timedelta(days=days_since_monday), then
\* + or - timedelta(weeks=1), then + timedelta(days=6)
WeekRange(relative, clock) ==
  LET monday == AddDays(clock, 0 - Weekday(clock))
      start == IF relative = "next" THEN AddDays(monday, 7)
               ELSE IF relative = "previous" THEN AddDays(monday, 0 - 7)
               ELSE monday
      label == IF relative = "next" THEN "next week"
               ELSE IF relative = "previous" THEN "last week"
               ELSE "this week"
  IN  ResolvedSums(<<monday, start, AddDays(start, 6)>>, start, AddDays(start, 6), label)

\* TargetMonth with "next" and "previous" staying in the current year
TargetMonthSameYear(month, year, relative, clock) ==
  IF TruthyInt(month) THEN [year |-> year, month |-> month[1], label |-> "year month"]
  ELSE IF relative = "current"
       THEN [year |-> clock.year, month |-> clock.month, label |-> "this month"]
  ELSE IF relative = "next"
       THEN IF clock.month = 12
            THEN [year |-> clock.year, month |-> 1, label |-> "next month"]
            ELSE [year |-> clock.year, month |-> clock.month + 1, label |-> "next month"]
  ELSE IF relative = "previous"
       THEN IF clock.month = 1
            THEN [year |-> clock.year, month |-> 12, label |-> "last month"]
            ELSE [year |-> clock.year, month |-> clock.month - 1, label |-> "last month"]
  ELSE [year |-> clock.year, month |-> clock.month, label |-> "this month"]

\* period_type == "month": the month the query is about
TargetMonth(month, year, relative, clock) ==
  IF TruthyInt(month) THEN [year |-> year, month |-> month[1], label |-> "year month"]
  ELSE IF relative = "current"
       THEN [year |-> clock.year, month |-> clock.month, label |-> "this month"]
  ELSE IF relative = "next"
       THEN IF clock.month = 12
            THEN [year |-> clock.year + 1, month |-> 1, label |-> "next month"]
            ELSE [year |-> clock.year, month |-> clock.month + 1, label |-> "next month"]
  ELSE IF relative = "previous"
       THEN IF clock.month = 1
            THEN [year |-> clock.year - 1, month |-> 12, label |-> "last month"]
            ELSE [year |-> clock.year, month |-> clock.month - 1, label |-> "last month"]
  ELSE [year |-> clock.year, month |-> clock.month, label |-> "this month"]

\* MonthRange with the month after December taken in the same year
MonthRangeSameYear(month, year, relative, clock) ==
  LET t == TargetMonth(month, year, relative, clock)
      ny == t.year
      nm == IF t.month = 12 THEN 1 ELSE t.month + 1
  IN  IF BadDate(t.year, t.month, 1) \/ BadDate(ny, nm, 1) THEN Failed
      ELSE Resolved(DateTime(t.year, t.month, 1, 0, 0),
                    AddDays(DateTime(ny, nm, 1, 0, 0), 0 - 1), t.label)

\* period_type == "month": the first and the last day of the target month;
\* datetime(...) raises for a month outside 1..12 or a year outside 1..9999
MonthRange(month, year, relative, clock) ==
  LET t == TargetMonth(month, year, relative, clock)
      ny == IF t.month = 12 THEN t.year + 1 ELSE t.year
      nm == IF t.month = 12 THEN 1 ELSE t.month + 1
  IN  IF BadDate(t.year, t.month, 1) \/ BadDate(ny, nm, 1) THEN Failed
      ELSE Resolved(DateTime(t.year, t.month, 1, 0, 0),
                    AddDays(DateTime(ny, nm, 1, 0, 0), 0 - 1), t.label)

\* RangeRange with a missing end date read as now
RangeRangeEndNow(start_date_str, end_date_str, clock) ==
  LET ps == StrpYmd(start_date_str[1])
      pe == StrpYmd(end_date_str[1])
      bad == \/ TruthyStr(start_date_str) /\ ~ps.ok
             \/ TruthyStr(end_date_str) /\ ~pe.ok
      start == IF TruthyStr(start_date_str) THEN AsDate(ps) ELSE clock
      end == IF TruthyStr(end_date_str) THEN AsDate(pe) ELSE clock
  IN  IF bad THEN Resolved(clock, clock, "%m/%d ~ %m/%d")
      ELSE Resolved(start, end, "%m/%d ~ %m/%d")

\* period_type == "range"
RangeRange(start_date_str, end_date_str, clock) ==
  LET ps == StrpYmd(start_date_str[1])
      pe == StrpYmd(end_date_str[1])
      bad == \/ TruthyStr(start_date_str) /\ ~ps.ok
             \/ TruthyStr(end_date_str) /\ ~pe.ok
      start == IF TruthyStr(start_date_str) THEN AsDate(ps) ELSE clock
      end == IF TruthyStr(end_date_str) THEN AsDate(pe) ELSE start
  IN  IF bad THEN Resolved(clock, clock, "%m/%d ~ %m/%d")
      ELSE Resolved(start, end, "%m/%d ~ %m/%d")

check_calendar(a, clock) ==
  LET period_type == Get(a.period_type, "day")
      relative == Get(a.relative, "current")
      year == Get(a.year, clock.year)
  IN  IF period_type = "day" THEN DayRange(a.start_date, relative, clock)
      ELSE IF period_type = "week" THEN WeekRange(relative, clock)
      ELSE IF period_type = "month" THEN MonthRange(a.month, year, relative, clock)
      ELSE IF period_type = "range" THEN RangeRange(a.start_date, a.end_date, clock)
      ELSE Resolved(clock, clock, "today")

\* the values of relative: the enum of the tool, absent, and one outside it
Relatives ==
  { Absent, <<"current">>, <<"next">>, <<"previous">>, <<"today">>,
    <<"tomorrow">>, <<"day_after">>, <<"someday">> }

\* 2024-02-29, 2023-02-29 (no such day), 2024-12-30, the empty string
DayStrings ==
  { Absent, <<<<50, 48, 50, 52, 45, 48, 50, 45, 50, 57>>>>, <<<<50, 48, 50, 51, 45, 48, 50, 45, 50, 57>>>>, <<<<50, 48, 50, 52, 45, 49, 50, 45, 51, 48>>>>, <<<<>>>> }

DayQueries ==
  { [NoArgs EXCEPT !.period_type = p, !.relative = r, !.start_date = s] :
      p \in {Absent, <<"day">>}, r \in Relatives, s \in DayStrings }

WeekQueries ==
  { [NoArgs EXCEPT !.period_type = <<"week">>, !.relative = r] : r \in Relatives }

MonthQueries ==
  { [NoArgs EXCEPT !.period_type = <<"month">>, !.relative = r, !.month = m, !.year = y] :
      r \in {Absent, <<"current">>, <<"next">>, <<"previous">>, <<"today">>},
      m \in {Absent, <<0>>, <<1>>, <<2>>, <<12>>, <<13>>},
      y \in {Absent, <<2023>>, <<2024>>, <<2025>>, <<9999>>} }

\* 2024-12-30, 2025-01-02, 2024-12-28, 2024-13-01 (no such month), 12/30
RangeQueries ==
  { [NoArgs EXCEPT !.period_type = <<"range">>, !.start_date = s, !.end_date = e] :
      s \in {Absent, <<<<50, 48, 50, 52, 45, 49, 50, 45, 51, 48>>>>, <<<<50, 48, 50, 53, 45, 48, 49, 45, 48, 50>>>>, <<<<49, 50, 47, 51, 48>>>>, <<<<>>>>},
      e \in {Absent, <<<<50, 48, 50, 52, 45, 49, 50, 45, 50, 56>>>>, <<<<50, 48, 50, 53, 45, 48, 49, 45, 48, 50>>>>, <<<<50, 48, 50, 52, 45, 49, 51, 45, 48, 49>>>>} }

\* a period type outside the enum of the tool
OtherQueries ==
  { [NoArgs EXCEPT !.period_type = <<"year">>, !.relative = r] :
      r \in {Absent, <<"next">>} }

Queries ==
  DayQueries \cup WeekQueries \cup MonthQueries \cup RangeQueries \cup OtherQueries

InitCal ==
  /\ now \in Nows
  /\ args \in Queries
  /\ resolved = NoRange
  /\ IdleNLU /\ IdleTime /\ IdleDate /\ IdleEvent /\ IdleRepeat /\ IdleObjects

\* LLMAgent._check_calendar(args), up to the query it sends to the calendar
CheckCalendar ==
  /\ resolved.status = ""
  /\ resolved' = check_calendar(args, now)
  /\ UNCHANGED <<now, args, notCal>>

NextCal == CheckCalendar

SpecCal == InitCal /\ [][NextCal]_vars

(***************************************************************************)
(* CalendarService._build_recurrence_rule                                  *)
(***************************************************************************)
\* str(n) for n >= 0
RECURSIVE Digits(_)
Digits(n) == IF n < 10 THEN <<48 + n>> ELSE Digits(n \div 10) \o <<48 + (n % 10)>>

\* what the f-string writes for {count}: the decimal digits of an int, "None"
\* for None
PyStr(v) ==
  IF v.none THEN <<78, 111, 110, 101>>
  ELSE IF v.n < 0 THEN <<45>> \o Digits(0 - v.n)
  ELSE Digits(v.n)

\* freq_map.get(keyword); <<>> is None
freq_map(keyword) ==
  IF keyword = <<121, 101, 97, 114, 108, 121>> THEN <<89, 69, 65, 82, 76, 89>>
  ELSE IF keyword = <<109, 111, 110, 116, 104, 108, 121>> THEN <<77, 79, 78, 84, 72, 76, 89>>
  ELSE IF keyword = <<119, 101, 101, 107, 108, 121>> THEN <<87, 69, 69, 75, 76, 89>>
  ELSE IF keyword = <<100, 97, 105, 108, 121>> THEN <<68, 65, 73, 76, 89>>
  ELSE <<>>

\* _build_recurrence_rule(recurrence, count): <<>> for None, <<rule>> for the
\* RRULE string
build_recurrence_rule(recurrence, count) ==
  LET freq == freq_map(Lower(recurrence))
  IN  IF freq = <<>> THEN <<>>
      ELSE <<<<82, 82, 85, 76, 69, 58, 70, 82, 69, 81, 61>> \o freq \o <<59, 67, 79, 85, 78, 84, 61>> \o PyStr(count)>>

\* "if recurrence:" and "if rrule:" in create_event and create_all_day_event:
\* the value of event['recurrence'], <<>> when the key is not set
RecurrenceOf(recurrence, recurrence_count) ==
  IF TruthyStr(recurrence) THEN build_recurrence_rule(recurrence[1], recurrence_count)
  ELSE <<>>

(***************************************************************************)
(* LLMAgent._add_calendar_event and the event bodies of CalendarService    *)
(***************************************************************************)
\* the white space int() skips around the number: that of str.isspace()
\* but for U+001C..U+001F, which it leaves as they are
IntSpace(c) == IsSpace(c) /\ ~(c >= 28 /\ c <= 31)

RECURSIVE IntStrip(_)
IntStrip(s) ==
  IF s = <<>> THEN s
  ELSE IF IntSpace(s[1]) THEN IntStrip(Tail(s))
  ELSE IF IntSpace(s[Len(s)]) THEN IntStrip(SubSeq(s, 1, Len(s) - 1))
  ELSE s

\* what int() accepts between the white space: an optional sign, then
\* decimal digits that single underscores may separate
IntLiteral(t) ==
  LET signed == t # <<>> /\ t[1] \in {43, 45}
      from == IF signed THEN 2 ELSE 1
  IN  /\ from <= Len(t)
      /\ \A i \in from..Len(t) :
            \/ IsDecimal(t[i])
            \/ /\ t[i] = 95
               /\ i > from /\ i < Len(t)
               /\ IsDecimal(t[i - 1]) /\ IsDecimal(t[i + 1])

\* int(s) raises ValueError: s is no number, or it has more digits than
\* sys.int_max_str_digits (the sign, the underscores and the white space do
\* not count, leading zeros do)
BadInt(str) ==
  \/ Len(SelectSeq(str, LAMBDA c : IsDecimal(c))) > int_max_str_digits
  \/ ~IntLiteral(IntStrip(str))

PyIntOf(str) ==
  LET t == IntStrip(str)
      n == ToInt(SelectSeq(t, LAMBDA c : IsDecimal(c)))
  IN  IF t[1] = 45 THEN 0 - n ELSE n

\* hour, minute = map(int, time_str.split(":")), (9, 0) when that raises
parse_clock_time(str) ==
  LET parts == SplitOn(str, <<58>>)
  IN  IF Len(parts) # 2 \/ BadInt(parts[1]) \/ BadInt(parts[2])
      THEN [hour |-> 9, minute |-> 0]
      ELSE [hour |-> PyIntOf(parts[1]), minute |-> PyIntOf(parts[2])]

\* dt + timedelta(minutes = k)
AddMinutes(dt, k) ==
  LET total == dt.hour * 60 + dt.minute + k
      rest == total % 1440
      moved == AddDays(dt, (total - rest) \div 1440)
  IN  [moved EXCEPT !.hour = rest \div 60, !.minute = rest % 60]

\* strftime('%Y-%m-%d'): an all-day event carries dates only
DateOnly(dt) == [dt EXCEPT !.hour = 0, !.minute = 0]

\* the except clause of _add_calendar_event: the error message is returned
EventError == [NoEvent EXCEPT !.call = "error"]

\* the calendar service caught an exception and returned None
EventFailed == [NoEvent EXCEPT !.call = "failed"]

\* CalendarService.create_all_day_event(title, start_date, end_date, ...);
\* end_date is <<>> for None
create_all_day_event(start_date, end_date, recurrence, recurrence_count) ==
  LET end == IF end_date = <<>> THEN AddDays(start_date, 1) ELSE end_date[1]
  IN  IF end.year > 9999 THEN EventFailed
      ELSE [call |-> "create_all_day_event", start |-> DateOnly(start_date),
            end |-> DateOnly(end),
            recurrence |-> RecurrenceOf(recurrence, recurrence_count)]

\* CalendarService.create_event(title, start_time, duration_minutes, ...)
create_event(start_time, duration_minutes, recurrence, recurrence_count) ==
  IF duration_minutes.none THEN EventFailed
  ELSE LET end_time == AddMinutes(start_time, duration_minutes.n)
       IN  IF end_time.year > 9999 \/ end_time.year < 1 THEN EventFailed
           ELSE [call |-> "create_event", start |-> start_time, end |-> end_time,
                 recurrence |-> RecurrenceOf(recurrence, recurrence_count)]

\* ExclusiveEnd with the last day itself taken as the end
ExclusiveEndSameDay(end_date) == end_date

\* the end of an all-day event is the day after its last day
ExclusiveEnd(end_date) == AddDays(end_date, 1)

\* _parse_date(None) and _parse_date("") both return now
ParseDateArg(opt, clock) == IF opt = <<>> THEN clock ELSE parse_date(opt[1], clock)

\* clock is what datetime.now() returns to the _parse_date call for the
\* start date, later what it returns to the one for end_date
add_calendar_event(a, clock, later) ==
  LET start_date_str == IF a.start_date # Absent THEN a.start_date
                        ELSE IF a.date # Absent THEN a.date
                        ELSE <<<<116, 111, 100, 97, 121>>>>
      duration == Get(a.duration, PyInt(60))
      is_all_day == Get(a.is_all_day, FALSE)
      recurrence_count == Get(a.recurrence_count, PyInt(10))
      start_date == ParseDateArg(start_date_str, clock)
  IN  IF Overflows(start_date) THEN EventError
      ELSE IF TruthyStr(a.end_date)
      THEN LET end_date == ExclusiveEnd(parse_date(a.end_date[1], later))
           IN  IF Overflows(end_date) THEN EventError
               ELSE create_all_day_event(start_date, <<end_date>>, a.recurrence,
                                         recurrence_count)
      ELSE IF is_all_day \/ ~TruthyStr(a.time)
      THEN create_all_day_event(start_date, <<>>, a.recurrence, recurrence_count)
      ELSE LET t == parse_clock_time(a.time[1])
           IN  IF t.hour \notin 0..23 \/ t.minute \notin 0..59 THEN EventError
               ELSE create_event([start_date EXCEPT !.hour = t.hour, !.minute = t.minute],
                                 duration, a.recurrence, recurrence_count)

\* the instants the clock is read at while events are added
EventNows ==
  { DateTime(2024, 12, 15, 9, 0), DateTime(2024, 12, 31, 23, 59),
    DateTime(2024, 2, 28, 14, 30) }

\* 2024-12-11, tomorrow, 12/31
StartDates == { Absent, <<<<50, 48, 50, 52, 45, 49, 50, 45, 49, 49>>>>, <<<<116, 111, 109, 111, 114, 114, 111, 119>>>>, <<<<49, 50, 47, 51, 49>>>> }

\* 2024-12-13, 2024-12-31, tomorrow, 12/31, the empty string
EndDates ==
  { Absent, <<<<50, 48, 50, 52, 45, 49, 50, 45, 49, 51>>>>, <<<<50, 48, 50, 52, 45, 49, 50, 45, 51, 49>>>>,
    <<<<116, 111, 109, 111, 114, 114, 111, 119>>>>, <<<<49, 50, 47, 51, 49>>>>, <<<<>>>> }

\* the minutes that pass between the two readings of the clock
Elapsed == {0, 1}

\* what the clock returns to the second _parse_date call of a call that
\* began at clock; a call without an end date reads it once
Readings(a, clock) ==
  IF TruthyStr(a.end_date) THEN {AddMinutes(clock, k) : k \in Elapsed} ELSE {clock}

\* 15:00, 9:5, 23:30, 25:00, noon, 15:00:00, the empty string
ClockTimes ==
  { Absent, <<<<49, 53, 58, 48, 48>>>>, <<<<57, 58, 53>>>>, <<<<50, 51, 58, 51, 48>>>>, <<<<50, 53, 58, 48, 48>>>>, <<<<110, 111, 111, 110>>>>,
    <<<<49, 53, 58, 48, 48, 58, 48, 48>>>>, <<<<>>>> }

Durations == { Absent, <<PyInt(30)>>, <<PyInt(90)>>, <<PyNone>> }

AllDayFlags == { Absent, <<TRUE>>, <<FALSE>> }

\* monthly, Daily, yearly, hourly, the empty string
Recurrences ==
  { Absent, <<<<109, 111, 110, 116, 104, 108, 121>>>>, <<<<68, 97, 105, 108, 121>>>>, <<<<121, 101, 97, 114, 108, 121>>>>, <<<<104, 111, 117, 114, 108, 121>>>>, <<<<>>>> }

Counts == { Absent, <<PyNone>>, <<PyInt(3)>>, <<PyInt(0)>>, <<PyInt(0 - 1)>> }

\* the payloads that decide the shape of the event
ShapePayloads ==
  { [NoEventArgs EXCEPT !.start_date = s, !.end_date = e, !.time = t,
                        !.duration = d, !.is_all_day = f] :
      s \in StartDates, e \in EndDates, t \in ClockTimes, d \in Durations,
      f \in AllDayFlags }

\* the payloads of repeated events
RecurrencePayloads ==
  { [NoEventArgs EXCEPT !.start_date = <<<<50, 48, 50, 52, 45, 49, 50, 45, 49, 49>>>>, !.end_date = e, !.time = t,
                        !.recurrence = r, !.recurrence_count = c] :
      e \in {Absent, <<<<50, 48, 50, 52, 45, 49, 50, 45, 49, 51>>>>}, t \in {Absent, <<<<49, 53, 58, 48, 48>>>>},
      r \in Recurrences, c \in Counts }

\* the payloads that name the day under the key "date"
DateKeyPayloads ==
  { [NoEventArgs EXCEPT !.start_date = s, !.date = <<<<50, 48, 50, 52, 45, 49, 50, 45, 49, 51>>>>, !.time = t] :
      s \in {Absent, <<<<50, 48, 50, 52, 45, 49, 50, 45, 49, 49>>>>}, t \in {Absent, <<<<49, 53, 58, 48, 48>>>>} }

Payloads == ShapePayloads \cup RecurrencePayloads \cup DateKeyPayloads

InitEvent ==
  /\ now \in EventNows
  /\ now_again = now
  /\ event_args \in Payloads
  /\ event = NoEvent
  /\ IdleNLU /\ IdleTime /\ IdleDate /\ IdleCal /\ IdleRepeat /\ IdleObjects

\* LLMAgent._add_calendar_event(args), up to the event the calendar service
\* inserts
AddCalendarEvent ==
  /\ event.call = ""
  /\ \E later \in Readings(event_args, now) :
       /\ now_again' = later
       /\ event' = add_calendar_event(event_args, now, later)
  /\ UNCHANGED <<now, event_args, notEvent>>

NextEvent == AddCalendarEvent

SpecEvent == InitEvent /\ [][NextEvent]_vars

(***************************************************************************)
(* The same call made again, later: _parse_date and _check_calendar take   *)
(* no clock argument and read datetime.now() themselves                    *)
(***************************************************************************)
\* a is an earlier instant than b
Before(a, b) ==
  LET ka == <<a.year, a.month, a.day, a.hour, a.minute>>
      kb == <<b.year, b.month, b.day, b.hour, b.minute>>
  IN  \E i \in 1..5 : ka[i] < kb[i] /\ \A j \in 1..(i - 1) : ka[j] = kb[j]

\* today, tomorrow, 2024-12-11, 12/31, 회의 and the empty token
RepeatTokens ==
  { <<116, 111, 100, 97, 121>>, <<116, 111, 109, 111, 114, 114, 111, 119>>, <<50, 48, 50, 52, 45, 49, 50, 45, 49, 49>>, <<49, 50, 47, 51, 49>>, <<54924, 51032>>, <<>> }

RepeatQueries ==
  { [NoArgs EXCEPT !.period_type = p, !.relative = r] :
      p \in {<<"day">>, <<"week">>, <<"month">>}, r \in {<<"next">>} }
  \cup { [NoArgs EXCEPT !.period_type = <<"range">>,
                        !.start_date = << <<50, 48, 50, 52, 45, 49, 50, 45, 50, 56>> >>,
                        !.end_date = << <<50, 48, 50, 52, 45, 49, 50, 45, 51, 48>> >>],
         [NoArgs EXCEPT !.period_type = <<"month">>, !.month = <<2>>, !.year = <<2024>>] }

InitRepeat ==
  /\ now \in EventNows
  /\ date_str \in RepeatTokens
  /\ parsed_date = NoDate
  /\ args \in RepeatQueries
  /\ resolved = NoRange
  /\ earlier = NoEarlier
  /\ IdleNLU /\ IdleTime /\ IdleEvent /\ IdleObjects

\* time passes between two calls
Tick ==
  /\ \E later \in Nows : Before(now, later) /\ now' = later
  /\ UNCHANGED <<nluVars, timeVars, dateVars, calVars, evVars, earlier, objVars>>

\* LLMAgent._parse_date(date_str), called a second time with the same token
ParseDateAgain ==
  /\ parsed_date.by = "agent"
  /\ earlier.of = ""
  /\ earlier' = [NoEarlier EXCEPT !.of = "parse_date", !.date = parsed_date.date]
  /\ parsed_date' = Parsed("agent", parse_date(date_str, now))
  /\ UNCHANGED <<now, date_str, nluVars, timeVars, calVars, evVars, objVars>>

\* LLMAgent._check_calendar(args), called a second time with the same args
CheckCalendarAgain ==
  /\ resolved.status # ""
  /\ earlier.of = ""
  /\ earlier' = [NoEarlier EXCEPT !.of = "check_calendar", !.range = resolved]
  /\ resolved' = check_calendar(args, now)
  /\ UNCHANGED <<now, args, nluVars, timeVars, dateVars, evVars, objVars>>

NextRepeat ==
  \/ ParseDate
  \/ CheckCalendar
  \/ Tick
  \/ ParseDateAgain
  \/ CheckCalendarAgain

SpecRepeat == InitRepeat /\ [][NextRepeat]_vars

(***************************************************************************)
(* LLMTask: the conversation store.  A message is modelled by its number   *)
(* in its conversation (0 is the empty message), an assistant reply by the *)
(* number of the message it answers.                                       *)
(***************************************************************************)
\* the conversation ids a caller can give and uuid4 can return
ConversationIds == {"c1", "c2"}

\* the longest conversation a caller holds, in messages sent
MaxTurns == 12

Message(role, n) == [role |-> role, content |-> n]

\* if not conversation_id
NotGiven(given) == given.none \/ given.id = ""

\* the id of the conversation a chat call works on
ConversationIdNew(given, uuid) == uuid

ConversationId(given, uuid) == IF NotGiven(given) THEN uuid ELSE given.id

\* self.conversations[conversation_id] = [] when no id is given
Opened(conversations, given, uuid) ==
  IF NotGiven(given) THEN (uuid :> <<>>) @@ conversations ELSE conversations

\* self.conversations.get(conversation_id, [])
HistoryOf(conversations, c) ==
  IF c \in DOMAIN conversations THEN conversations[c] ELSE <<>>

\* the history a call keeps: history[-20:] when it is longer than 20
Kept(history) ==
  IF Len(history) > 20 THEN SubSeq(history, Len(history) - 19, Len(history)) ELSE history

\* the store after the API answered message n
Answered(conversations, c, n) ==
  LET history ==
        HistoryOf(conversations, c) \o <<Message("user", n), Message("assistant", n)>>
  IN  (c :> Kept(history)) @@ conversations

\* the store after the API call raised
RaisedKeepsUser(conversations, c, n) ==
  IF c \in DOMAIN conversations
    THEN (c :> Append(conversations[c], Message("user", n))) @@ conversations
    ELSE conversations

Raised(conversations, c, n) == conversations

\* what the API call does: it returns a completion that used some tokens, or raises
ApiOutcomes == {[ok |-> TRUE, tokens |-> 50], [ok |-> FALSE, tokens |-> 0]}

ChatResult(conversations, outcome, conversation_id, tokens_used) ==
  [conversations |-> conversations, outcome |-> outcome,
   conversation_id |-> conversation_id, tokens_used |-> tokens_used]

\* LLMTask._chat: the store it leaves and the response it returns
chat(task, n, given, uuid, api) ==
  IF n = 0
    THEN ChatResult(task.conversations, "empty", NoId, 0)
    ELSE LET c == ConversationId(given, uuid)
             opened == Opened(task.conversations, given, uuid)
         IN  IF ~task.client
               THEN ChatResult(opened, "dummy", Id(c), 0)
               ELSE IF api.ok
                 THEN ChatResult(Answered(opened, c, n), "answered", Id(c), api.tokens)
                 ELSE ChatResult(Raised(opened, c, n), "error", Id(c), 0)

\* del self.conversations[conversation_id]
WithoutAny(conversations, c) == NoConversations

Without(conversations, c) ==
  [k \in DOMAIN conversations \ {c} |-> conversations[k]]

\* LLMTask.clear_conversation: the store it leaves
clear_conversation(task, c) ==
  IF c \in DOMAIN task.conversations
    THEN Without(task.conversations, c)
    ELSE task.conversations

\* the values of params["conversation_id"]: missing or None, empty, or an id
GivenIds == {NoId, Id("")} \cup {Id(c) : c \in ConversationIds}

\* the number of the next message of the conversation a caller continues
NextMessage(conversations, given) ==
  LET history == IF NotGiven(given) THEN <<>> ELSE HistoryOf(conversations, given.id)
  IN  IF history = <<>> THEN 1 ELSE history[Len(history)].content + 1

\* the ids uuid4 can return: none that was ever returned or given
Uuids(given, empty) ==
  IF NotGiven(given) /\ ~empty THEN ConversationIds \ issued ELSE {""}

\* LLMTask(api_key): the client is there when a key is given and openai imports
InitChat ==
  /\ llm_task \in {[client |-> b, conversations |-> NoConversations] : b \in BOOLEAN}
  /\ issued = {}
  /\ replied = NoReply
  /\ IdleNLU /\ IdleTime /\ IdleNow /\ IdleDate /\ IdleCal /\ IdleEvent /\ IdleRepeat
  /\ IdleCalendarTask /\ IdleMail /\ IdleAgent

\* execute("chat", params)
Chat ==
  /\ \E given \in GivenIds, empty \in BOOLEAN, api \in ApiOutcomes :
       \E uuid \in Uuids(given, empty) :
         LET n == IF empty THEN 0 ELSE NextMessage(llm_task.conversations, given)
             result == chat(llm_task, n, given, uuid, api)
         IN  /\ n <= MaxTurns
             /\ llm_task' = [llm_task EXCEPT !.conversations = result.conversations]
             /\ issued' =
                  issued \cup (IF NotGiven(given) THEN {} ELSE {given.id})
                         \cup (IF result.conversation_id.none
                                 THEN {} ELSE {result.conversation_id.id})
             /\ replied' =
                  [call |-> "chat", message |-> n, given |-> given,
                   before |-> llm_task.conversations, outcome |-> result.outcome,
                   conversation_id |-> result.conversation_id,
                   tokens_used |-> result.tokens_used]
  /\ UNCHANGED <<nluVars, timeVars, now, dateVars, calVars, evVars, earlier, ctVars, mailVars, agentVars>>

\* clear_conversation(conversation_id)
ClearConversation ==
  /\ \E c \in ConversationIds :
       /\ llm_task' = [llm_task EXCEPT !.conversations = clear_conversation(llm_task, c)]
       /\ issued' = issued \cup {c}
       /\ replied' =
            [call |-> "clear", message |-> 0, given |-> Id(c),
             before |-> llm_task.conversations, outcome |-> "",
             conversation_id |-> NoId, tokens_used |-> 0]
  /\ UNCHANGED <<nluVars, timeVars, now, dateVars, calVars, evVars, earlier, ctVars, mailVars, agentVars>>

NextChat == Chat \/ ClearConversation

SpecChat == InitChat /\ [][NextChat]_vars

(***************************************************************************)
(* CalendarTask.execute: demo mode without credentials, and the four        *)
(* actions on the calendar.  The calendar holds events that start at 9:00  *)
(* or later, whose day is the same in UTC and in Asia/Seoul.               *)
(***************************************************************************)
\* the most events Google Calendar ever gave an id to
MaxEvents == 1

DefaultDate == <<50724, 45720>>                          \* "오늘"

DefaultTime == <<50724, 51204, 32, 57, 49884>>           \* "오전 9시"

DefaultTitle == <<49352, 32, 51068, 51221>>              \* "새 일정"

NoSummary == <<40, 51228, 47785, 32, 50630, 51020, 41>>  \* "(제목 없음)"

\* CalendarTask._init_service; loaded is whether the credentials file loads
\* and the service builds
init_service_anyway(task, loaded) ==
  IF task.initialized THEN task
  ELSE IF loaded THEN [task EXCEPT !.service = TRUE, !.initialized = TRUE]
  ELSE task

init_service(task, loaded) ==
  IF task.initialized THEN task
  ELSE IF ~task.credentials_path THEN task
  ELSE IF loaded THEN [task EXCEPT !.service = TRUE, !.initialized = TRUE]
  ELSE task

\* what a handler hands back, with the calendar it leaves and the API calls it made
Handled(cal, success, message, events, event_id, calls) ==
  [calendar |-> cal, success |-> success, message |-> message, events |-> events,
   event_id |-> event_id, calls |-> calls]

OnDay(dt, target) ==
  dt.year = target.year /\ dt.month = target.month /\ dt.day = target.day

\* orderBy='startTime'
RECURSIVE SortByStart(_)
SortByStart(events) ==
  IF events = <<>> THEN <<>>
  ELSE LET rest == SortByStart(Tail(events))
           e == Head(events)
           k == Cardinality({j \in 1..Len(rest) : Before(rest[j].start, e.start)})
       IN  SubSeq(rest, 1, k) \o <<e>> \o SubSeq(rest, k + 1, Len(rest))

\* the first n of a list
FirstOf(found, n) == SubSeq(found, 1, IF Len(found) < n THEN Len(found) ELSE n)

\* service.events().list(timeMin, timeMax, maxResults=10, singleEvents,
\* orderBy='startTime').execute(): the first ten events of the day
ListEvents(cal, target) ==
  FirstOf(SortByStart(SelectSeq(cal.events, LAMBDA e : OnDay(e.start, target))), 10)

\* one entry of event_list
Listed(e) == [id |-> e.id, title |-> Get(e.summary, NoSummary), start |-> e.start]

\* CalendarTask._check_events; today + timedelta(...) past the year 9999
\* raises OverflowError, which the except clause turns into success False
check_events(task, cal, params, clock, lib, fails) ==
  IF ~task.service
    THEN Handled(cal, TRUE, "demo", <<>>, Absent, <<>>)
    ELSE LET target == parse_date_entity(Get(params.date, DefaultDate), clock, lib)
             items == ListEvents(cal, target)
         IN  IF Overflows(target)
               THEN Handled(cal, FALSE, "error", <<>>, Absent, <<>>)
             ELSE IF "list" \in fails
               THEN Handled(cal, FALSE, "error", <<>>, Absent, <<"list">>)
               ELSE Handled(cal, TRUE, "count", [k \in 1..Len(items) |-> Listed(items[k])],
                            Absent, <<"list">>)

\* CalendarTask._add_event; the demo event id is written 0.  The except
\* clause returns success False before the insert for every exception of the
\* try block: the OverflowError of a date past the year 9999 (today +
\* timedelta(...), start_time + timedelta(minutes=duration)), the ValueError
\* of int() and that of replace(hour, minute)
add_event(task, cal, params, clock, lib, fails) ==
  IF ~task.service
    THEN Handled(cal, TRUE, "demo", <<>>, <<0>>, <<>>)
    ELSE LET target == parse_date_entity(Get(params.date, DefaultDate), clock, lib)
             at == parse_time_entity(Get(params.time, DefaultTime))
             start_time == [target EXCEPT !.hour = at.hour, !.minute = at.minute]
             end_time == AddMinutes(start_time, Get(params.duration, 60))
             id == cal.issued + 1
             new == [id |-> id, summary |-> <<Get(params.title, DefaultTitle)>>,
                     start |-> start_time, end |-> end_time]
         IN  IF \/ Overflows(target)
                \/ at.raised
                \/ at.hour > 23 \/ at.minute > 59
                \/ Overflows(end_time)
               THEN Handled(cal, FALSE, "error", <<>>, Absent, <<>>)
               ELSE IF "insert" \in fails
                 THEN Handled(cal, FALSE, "error", <<>>, Absent, <<"insert">>)
                 ELSE Handled([events |-> Append(cal.events, new), issued |-> id],
                              TRUE, "added", <<>>, <<id>>, <<"insert">>)

Stored(cal, id) == \E k \in 1..Len(cal.events) : cal.events[k].id = id

\* CalendarTask._delete_event
delete_event(task, cal, params, clock, lib, fails) ==
  IF ~task.service
    THEN Handled(cal, TRUE, "demo", <<>>, Absent, <<>>)
    ELSE LET title == Get(params.title, <<>>)
             day == Get(params.date, DefaultDate)
             checked ==
               check_events(task, cal, [NoParams EXCEPT !.date = <<day>>],
                            clock, lib, fails)
             matches ==
               {k \in 1..Len(checked.events) :
                  Contains(Lower(checked.events[k].title), Lower(title))}
             first == CHOOSE k \in matches : \A j \in matches : k <= j
             event_id ==
               IF params.event_id # Absent THEN params.event_id
               ELSE IF matches # {} THEN <<checked.events[first].id>>
               ELSE Absent
             calls == IF params.event_id # Absent THEN <<>> ELSE checked.calls
         IN  IF event_id = Absent
               THEN Handled(cal, FALSE, "not found", <<>>, Absent, calls)
               ELSE IF "delete" \in fails \/ ~Stored(cal, event_id[1])
                 THEN Handled(cal, FALSE, "error", <<>>, Absent, Append(calls, "delete"))
                 ELSE Handled([cal EXCEPT !.events =
                                 SelectSeq(cal.events, LAMBDA e : e.id # event_id[1])],
                              TRUE, "deleted", <<>>, event_id, Append(calls, "delete"))

\* CalendarTask._update_event
update_event(task, cal, params, fails) ==
  IF ~task.service
    THEN Handled(cal, TRUE, "demo", <<>>, Absent, <<>>)
    ELSE IF params.event_id = Absent
      THEN Handled(cal, FALSE, "id needed", <<>>, Absent, <<>>)
      ELSE IF "get" \in fails \/ ~Stored(cal, params.event_id[1])
        THEN Handled(cal, FALSE, "error", <<>>, Absent, <<"get">>)
        ELSE IF "update" \in fails
          THEN Handled(cal, FALSE, "error", <<>>, Absent, <<"get", "update">>)
          ELSE Handled([cal EXCEPT !.events =
                          [k \in 1..Len(cal.events) |->
                             IF cal.events[k].id = params.event_id[1] /\ TruthyStr(params.title)
                               THEN [cal.events[k] EXCEPT !.summary = params.title]
                               ELSE cal.events[k]]],
                       TRUE, "updated", <<>>, params.event_id, <<"get", "update">>)

\* CalendarTask.execute after _init_service: the dispatch on action
execute(task, cal, action, params, clock, lib, fails) ==
  IF action = "check" THEN check_events(task, cal, params, clock, lib, fails)
  ELSE IF action = "add" THEN add_event(task, cal, params, clock, lib, fails)
  ELSE IF action = "delete" THEN delete_event(task, cal, params, clock, lib, fails)
  ELSE IF action = "update" THEN update_event(task, cal, params, fails)
  ELSE Handled(cal, FALSE, "ValueError", <<>>, Absent, <<>>)

Actions == {"check", "add", "delete", "update", "share"}

\* the titles of events: Meeting and Lunch
Meeting == <<77, 101, 101, 116, 105, 110, 103>>

Lunch == <<76, 117, 110, 99, 104>>

\* the titles to look for: meet, LUNCH and the empty title
SearchMeet == <<109, 101, 101, 116>>

SearchTitles == {SearchMeet, <<76, 85, 78, 67, 72>>, <<>>}

\* "내일", and a date left to dateutil, "12/25"
Tomorrow == <<45236, 51068>>

Christmas == <<49, 50, 47, 50, 53>>

\* "오후 3시" and "25시"
ThreePm == <<50724, 54980, 32, 51, 49884>>

TwentyFive == <<50, 53, 49884>>

\* the last day datetime represents, "9999-12-31", and "오후 11시 30분"
LastDate == <<57, 57, 57, 57, 45, 49, 50, 45, 51, 49>>

HalfPastEleven == <<50724, 54980, 32, 49, 49, 49884, 32, 51, 48, 48516>>

EventIdParams == {Absent} \cup {<<id>> : id \in 1..MaxEvents}

\* the params a caller sends with an action
ParamsOf(action) ==
  IF action = "check"
    THEN {[NoParams EXCEPT !.date = d] : d \in {Absent, <<Tomorrow>>, <<Christmas>>}}
  ELSE IF action = "add"
    THEN { [NoParams EXCEPT !.title = <<Meeting>>],
           [NoParams EXCEPT !.title = <<Lunch>>, !.time = <<ThreePm>>],
           [NoParams EXCEPT !.title = <<Meeting>>, !.date = <<Tomorrow>>],
           [NoParams EXCEPT !.title = <<Lunch>>, !.time = <<TwentyFive>>],
           [NoParams EXCEPT !.title = <<Lunch>>, !.date = <<LastDate>>,
                            !.time = <<HalfPastEleven>>],
           [NoParams EXCEPT !.duration = <<30>>] }
  ELSE IF action = "delete"
    THEN {[NoParams EXCEPT !.event_id = e] : e \in EventIdParams \ {Absent}}
         \cup {[NoParams EXCEPT !.title = t] :
                 t \in {Absent} \cup {<<x>> : x \in SearchTitles}}
         \cup {[NoParams EXCEPT !.title = <<SearchMeet>>, !.date = <<Tomorrow>>]}
  ELSE IF action = "update"
    THEN {[NoParams EXCEPT !.event_id = e, !.title = t] :
            e \in EventIdParams, t \in {Absent, <<Lunch>>}}
  ELSE {NoParams}

\* what dateutil does with the date of a call: it is asked for no keyword
LibOf(params) == LibFor(Get(params.date, DefaultDate))

\* whether the imports, the credentials file and the build succeed, until they did
Loads(task) == IF task.initialized THEN {TRUE} ELSE BOOLEAN

\* the API calls of an action that fail: none, or one of them
FailuresOf(task, action) ==
  IF ~task.service THEN {{}}
  ELSE IF action = "check" THEN {{}, {"list"}}
  ELSE IF action = "add" THEN {{}, {"insert"}}
  ELSE IF action = "delete" THEN {{}, {"list"}, {"delete"}}
  ELSE IF action = "update" THEN {{}, {"get"}, {"update"}}
  ELSE {{}}

\* the calendar CalendarTask finds: empty, or with an untitled event today at 9:00
Calendars ==
  { [events |-> <<>>, issued |-> 0],
    [events |-> <<[id |-> 1, summary |-> Absent, start |-> DateTime(2024, 12, 15, 9, 0),
                   end |-> DateTime(2024, 12, 15, 10, 0)]>>,
     issued |-> 1] }

\* CalendarTask(credentials_path)
InitCalendarTask ==
  /\ calendar_task \in
       {[credentials_path |-> c, service |-> FALSE, initialized |-> FALSE] : c \in BOOLEAN}
  /\ calendar \in Calendars
  /\ executed = NoExecuted
  /\ IdleNLU /\ IdleTime /\ IdleNow /\ IdleDate /\ IdleCal /\ IdleEvent /\ IdleRepeat
  /\ IdleChat /\ IdleMail /\ IdleAgent

\* await task.execute(action, params)
Execute ==
  /\ \E action \in Actions, loaded \in Loads(calendar_task) :
       LET task == init_service(calendar_task, loaded)
       IN  \E params \in ParamsOf(action), fails \in FailuresOf(task, action) :
         \E lib \in LibOf(params) :
           \E done \in {execute(task, calendar, action, params, now, lib, fails)} :
               /\ done.calendar.issued <= MaxEvents
               /\ calendar_task' = task
               /\ calendar' = done.calendar
               /\ executed' =
                    [action |-> action, params |-> params,
                     before |-> calendar.events, success |-> done.success,
                     message |-> done.message, events |-> done.events,
                     event_id |-> done.event_id, calls |-> done.calls]
  /\ UNCHANGED <<nluVars, timeVars, now, dateVars, calVars, evVars, earlier, llmVars, mailVars, agentVars>>

NextCalendarTask == Execute

SpecCalendarTask == InitCalendarTask /\ [][NextCalendarTask]_vars

(***************************************************************************)
(* SionApp: the mail and schedule monitor.  The Tk event loop runs the     *)
(* after(0, ...) callbacks in the order they were queued and a delayed     *)
(* callback at some later time; every check of the mailbox runs in a       *)
(* thread of its own, one statement of its loop at a time.  Time is        *)
(* counted in minutes from monitoring_start_time, and every Date header    *)
(* carries the local offset.                                               *)
(***************************************************************************)
\* the most mails that arrive while the monitor runs
MaxEmails == 1

\* the most check threads, of the mailbox or of the calendar, that run at
\* the same time
MaxChecks == 2

\* the dict get_unread_emails returns for a mail: its id and its Date
Email(id, date) == [id |-> id, date |-> date]

\* a mail that was unread before the monitor started
OldEmail == Email(0, 0 - 60)

\* a callback handed to self.after
Callback(fn, id, response) == [fn |-> fn, id |-> id, response |-> response]

NoPending == [type |-> "", id |-> 0]

NoCheck == [pc |-> "", emails |-> <<>>, i |-> 0]

\* the settings the app may hold (notification.email_enabled,
\* notification.schedule_enabled, voice.email_voice_response) and whether
\* sounddevice imports
Settings ==
  [email_enabled : BOOLEAN, schedule_enabled : BOOLEAN, email_voice_response : BOOLEAN,
   audio_available : BOOLEAN]

\* what the user answers to a notification: read it, open it, never mind
Responses == {"read", "open", "no"}

\* SionApp.__init__ and start_monitoring, with the settings of the settings
\* file
InitMail ==
  /\ settings \in Settings
  /\ inbox = <<OldEmail>>
  /\ app = [monitoring_active |-> TRUE, monitoring_start_time |-> 0,
            notified_email_ids |-> {}, notified_events |-> {},
            waiting_for_response |-> FALSE, pending_notification |-> NoPending]
  /\ tk = [running |-> TRUE, soon |-> <<>>, later |-> {}]
  /\ checks = [t \in 1..MaxChecks |-> NoCheck]
  /\ event_checks = [t \in 1..MaxChecks |-> ""]
  /\ recorder = FALSE
  /\ shown = [emails |-> {}, events |-> {}, reply |-> ""]
  /\ handed = [id \in 0..MaxEmails |-> 0]
  /\ IdleNLU /\ IdleTime /\ IdleNow /\ IdleDate /\ IdleCal /\ IdleEvent /\ IdleRepeat
  /\ IdleChat /\ IdleCalendarTask /\ IdleAgent

notMail ==
  <<nluVars, timeVars, now, dateVars, calVars, evVars, earlier, llmVars, ctVars, agentVars>>

\* self.after(0, callback)
After0(queue, callback) == [queue EXCEPT !.soon = Append(queue.soon, callback)]

\* the callback the event loop runs next
Running(fn) == tk.running /\ tk.soon # <<>> /\ Head(tk.soon).fn = fn

Ran == [tk EXCEPT !.soon = Tail(tk.soon)]

\* a delayed callback whose time has come
Due(fn) == tk.running /\ Callback(fn, 0, "") \in tk.later

\* a mail arrives in the inbox, unread
Arrive ==
  /\ Len(inbox) <= MaxEmails
  /\ inbox' = <<Email(Len(inbox), Len(inbox))>> \o inbox
  /\ UNCHANGED <<settings, app, tk, checks, event_checks, recorder, shown, handed, notMail>>

\* SettingsDialog._save_and_close: the user saves other notification settings
SaveAndClose ==
  /\ tk.running
  /\ \E s \in Settings :
       /\ s.audio_available = settings.audio_available
       /\ s # settings
       /\ settings' = s
  /\ UNCHANGED <<inbox, app, tk, checks, event_checks, recorder, shown, handed, notMail>>

\* on_closing: the window is destroyed and the event loop ends; the daemon
\* threads run on until the interpreter exits
OnClosing ==
  /\ tk.running
  /\ tk' = [tk EXCEPT !.running = FALSE]
  /\ UNCHANGED <<settings, inbox, app, checks, event_checks, recorder, shown, handed, notMail>>

\* the check threads that have not ended
Busy ==
  Cardinality({t \in 1..MaxChecks : checks[t] # NoCheck})
    + Cardinality({t \in 1..MaxChecks : event_checks[t] # ""})

\* _check_new_emails: the timer starts a check thread and is set again
CheckNewEmails ==
  /\ tk.running
  /\ app.monitoring_active
  /\ Busy < MaxChecks
  /\ \E t \in 1..MaxChecks :
       /\ checks[t] = NoCheck
       /\ \A u \in 1..(t - 1) : checks[u] # NoCheck
       /\ checks' = [checks EXCEPT ![t] = [pc |-> "fetch", emails |-> <<>>, i |-> 0]]
  /\ UNCHANGED <<settings, inbox, app, tk, event_checks, recorder, shown, handed, notMail>>

\* check: gmail.get_unread_emails(10) returns the unread mails, newest first,
\* or nothing when the request fails
Fetched(t, ok) ==
  /\ checks[t].pc = "fetch"
  /\ checks' = [checks EXCEPT ![t] =
                  IF ok /\ inbox # <<>>
                    THEN [pc |-> "loop", i |-> 1,
                          emails |-> SubSeq(inbox, 1, IF Len(inbox) < 10 THEN Len(inbox) ELSE 10)]
                    ELSE NoCheck]
  /\ UNCHANGED <<settings, inbox, app, tk, event_checks, recorder, shown, handed, notMail>>

Fetch(t) == \E ok \in BOOLEAN : Fetched(t, ok)

\* continue: the loop of a check thread goes to the next mail, or ends
Continue(check) ==
  IF check.i < Len(check.emails) THEN [check EXCEPT !.pc = "loop", !.i = check.i + 1]
  ELSE NoCheck

\* check: the tests of the loop on one mail: already notified, older than the monitor
Look(t) ==
  /\ checks[t].pc = "loop"
  /\ LET email == checks[t].emails[checks[t].i]
         skip == \/ email.id \in app.notified_email_ids
                 \/ email.date < app.monitoring_start_time
     IN  checks' = [checks EXCEPT ![t] =
                      IF skip THEN Continue(checks[t]) ELSE [checks[t] EXCEPT !.pc = "found"]]
  /\ UNCHANGED <<settings, inbox, app, tk, event_checks, recorder, shown, handed, notMail>>

\* check: self.notified_email_ids.add(email_id)
Mark(t) ==
  /\ checks[t].pc = "found"
  /\ app' = [app EXCEPT !.notified_email_ids = @ \cup {checks[t].emails[checks[t].i].id}]
  /\ checks' = [checks EXCEPT ![t].pc = "added"]
  /\ UNCHANGED <<settings, inbox, tk, event_checks, recorder, shown, handed, notMail>>

\* check: self.after(0, _notify_new_email) and break; the call is taken by
\* the event loop between two callbacks, and raises when the loop has ended
\* (except: continue)
Hand(t) ==
  /\ checks[t].pc = "added"
  /\ IF tk.running
       THEN /\ tk' = After0(tk, Callback("notify_new_email",
                                         checks[t].emails[checks[t].i].id, ""))
            /\ checks' = [checks EXCEPT ![t] = NoCheck]
       ELSE /\ tk' = tk
            /\ checks' = [checks EXCEPT ![t] = Continue(checks[t])]
  /\ UNCHANGED <<settings, inbox, app, event_checks, recorder, shown, handed, notMail>>

\* _check_upcoming_events: the timer starts a check thread and is set again
CheckUpcomingEvents ==
  /\ tk.running
  /\ app.monitoring_active
  /\ Busy < MaxChecks
  /\ \E t \in 1..MaxChecks :
       /\ event_checks[t] = ""
       /\ \A u \in 1..(t - 1) : event_checks[u] # ""
       /\ event_checks' = [event_checks EXCEPT ![t] = "fetch"]
  /\ UNCHANGED <<settings, inbox, app, tk, checks, recorder, shown, handed, notMail>>

\* check: calendar.get_today_events() returns event 1, which starts within
\* ten minutes, or the request fails
EventsFetched(t, ok) ==
  /\ event_checks[t] = "fetch"
  /\ event_checks' = [event_checks EXCEPT ![t] = IF ok THEN "loop" ELSE ""]
  /\ UNCHANGED <<settings, inbox, app, tk, checks, recorder, shown, handed, notMail>>

FetchEvents(t) == \E ok \in BOOLEAN : EventsFetched(t, ok)

\* check: if event_id in self.notified_events: continue
LookEvent(t) ==
  /\ event_checks[t] = "loop"
  /\ event_checks' =
       [event_checks EXCEPT ![t] = IF 1 \in app.notified_events THEN "" ELSE "found"]
  /\ UNCHANGED <<settings, inbox, app, tk, checks, recorder, shown, handed, notMail>>

\* check: self.notified_events.add(event_id)
MarkEvent(t) ==
  /\ event_checks[t] = "found"
  /\ app' = [app EXCEPT !.notified_events = @ \cup {1}]
  /\ event_checks' = [event_checks EXCEPT ![t] = "added"]
  /\ UNCHANGED <<settings, inbox, tk, checks, recorder, shown, handed, notMail>>

\* check: self.after(0, _notify_upcoming_event) and break, or it raises
HandEvent(t) ==
  /\ event_checks[t] = "added"
  /\ tk' = IF tk.running THEN After0(tk, Callback("notify_upcoming_event", 1, "")) ELSE tk
  /\ event_checks' = [event_checks EXCEPT ![t] = ""]
  /\ UNCHANGED <<settings, inbox, app, checks, recorder, shown, handed, notMail>>

\* what a notification leaves when it waits for the spoken answer
Waiting(type, id) ==
  [app EXCEPT !.waiting_for_response = TRUE,
              !.pending_notification = [type |-> type, id |-> id]]

ListenLater(queue) ==
  [queue EXCEPT !.later = @ \cup {Callback("start_notification_listening", 0, "")}]

\* _notify_new_email
NotifyNewEmail ==
  /\ Running("notify_new_email")
  /\ LET id == Head(tk.soon).id
         drop == ~settings.email_enabled \/ app.waiting_for_response
         wait == ~drop /\ settings.email_voice_response
     IN  /\ handed' = [handed EXCEPT ![id] = @ + 1]
         /\ shown' = IF drop THEN shown ELSE [shown EXCEPT !.emails = @ \cup {id}]
         /\ app' = IF wait THEN Waiting("email", id) ELSE app
         /\ tk' = IF wait THEN ListenLater(Ran) ELSE Ran
  /\ UNCHANGED <<settings, inbox, checks, event_checks, recorder, notMail>>

\* _notify_upcoming_event
NotifyUpcomingEvent ==
  /\ Running("notify_upcoming_event")
  /\ LET id == Head(tk.soon).id
         drop == ~settings.schedule_enabled \/ app.waiting_for_response
         wait == ~drop /\ settings.email_voice_response
     IN  /\ shown' = IF drop THEN shown ELSE [shown EXCEPT !.events = @ \cup {id}]
         /\ app' = IF wait THEN Waiting("schedule", id) ELSE app
         /\ tk' = IF wait THEN ListenLater(Ran) ELSE Ran
  /\ UNCHANGED <<settings, inbox, checks, event_checks, recorder, handed, notMail>>

\* _start_notification_listening, 3000 ms after the notification
StartNotificationListening ==
  /\ Due("start_notification_listening")
  /\ LET left == tk.later \ {Callback("start_notification_listening", 0, "")}
     IN  tk' = [tk EXCEPT !.later =
                  IF app.waiting_for_response /\ settings.audio_available
                    THEN left \cup {Callback("record_notification_response", 0, "")}
                    ELSE left]
  /\ UNCHANGED <<settings, inbox, app, checks, event_checks, recorder, shown, handed, notMail>>

\* _record_notification_response, 500 ms later: it starts record_and_process
RecordNotificationResponse ==
  /\ Due("record_notification_response")
  /\ tk' = [tk EXCEPT !.later = @ \ {Callback("record_notification_response", 0, "")}]
  /\ recorder' = (app.waiting_for_response \/ recorder)
  /\ UNCHANGED <<settings, inbox, app, checks, event_checks, shown, handed, notMail>>

\* record_and_process: the answer is heard, or nothing is, or recording
\* fails; self.after raises when the event loop has ended
RecordAndProcess ==
  /\ recorder
  /\ recorder' = FALSE
  /\ \E heard \in Responses \cup {""} :
       tk' = IF ~tk.running THEN tk
             ELSE After0(tk, IF heard # ""
                               THEN Callback("handle_notification_response", 0, heard)
                               ELSE Callback("end_notification_waiting", 0, ""))
  /\ UNCHANGED <<settings, inbox, app, checks, event_checks, shown, handed, notMail>>

\* _end_notification_waiting
Ended == [app EXCEPT !.waiting_for_response = FALSE, !.pending_notification = NoPending]

\* the reply _handle_notification_response gives to an answer
ReplyTo(pending, response) ==
  IF pending.type = "email"
    THEN IF response = "read" THEN "read" ELSE IF response = "open" THEN "opened" ELSE "ok"
    ELSE IF response = "open" THEN "opened" ELSE "ok"

\* _handle_notification_response
HandleNotificationResponse ==
  /\ Running("handle_notification_response")
  /\ shown' = IF app.pending_notification = NoPending THEN shown
              ELSE [shown EXCEPT !.reply =
                      ReplyTo(app.pending_notification, Head(tk.soon).response)]
  /\ app' = Ended
  /\ tk' = Ran
  /\ UNCHANGED <<settings, inbox, checks, event_checks, recorder, handed, notMail>>

\* _end_notification_waiting, run by the event loop
EndNotificationWaiting ==
  /\ Running("end_notification_waiting")
  /\ app' = Ended
  /\ tk' = Ran
  /\ UNCHANGED <<settings, inbox, checks, event_checks, recorder, shown, handed, notMail>>

\* a step of one of the threads that check the mailbox
CheckStep == \E t \in 1..MaxChecks : Fetch(t) \/ Look(t) \/ Mark(t) \/ Hand(t)

\* a step of one of the threads that check the calendar
EventCheckStep ==
  \E t \in 1..MaxChecks : FetchEvents(t) \/ LookEvent(t) \/ MarkEvent(t) \/ HandEvent(t)

\* a callback run by the Tk event loop
TkStep ==
  \/ CheckNewEmails
  \/ CheckUpcomingEvents
  \/ NotifyNewEmail
  \/ NotifyUpcomingEvent
  \/ StartNotificationListening
  \/ RecordNotificationResponse
  \/ HandleNotificationResponse
  \/ EndNotificationWaiting

\* the monitor while the window is open
NextMailOpen ==
  \/ Arrive
  \/ SaveAndClose
  \/ CheckStep
  \/ EventCheckStep
  \/ TkStep
  \/ RecordAndProcess

NextMail == NextMailOpen \/ OnClosing

SpecMail == InitMail /\ [][NextMail]_vars

\* the window stays open, the event loop runs every callback it holds,
\* every thread runs on, each timer starts a check again and again (it is
\* set again whatever the threads do), and Gmail does not fail for ever
SpecMailFair ==
  /\ InitMail /\ [][NextMailOpen]_vars
  /\ SF_vars(CheckNewEmails)
  /\ SF_vars(CheckUpcomingEvents)
  /\ SF_vars(\E t \in 1..MaxChecks : Fetched(t, TRUE))
  /\ \A t \in 1..MaxChecks : WF_vars(Fetch(t) \/ Look(t) \/ Mark(t) \/ Hand(t))
  /\ \A t \in 1..MaxChecks :
       WF_vars(FetchEvents(t) \/ LookEvent(t) \/ MarkEvent(t) \/ HandEvent(t))
  /\ WF_vars(NotifyNewEmail)
  /\ WF_vars(NotifyUpcomingEvent)
  /\ WF_vars(StartNotificationListening)
  /\ WF_vars(RecordNotificationResponse)
  /\ WF_vars(HandleNotificationResponse)
  /\ WF_vars(EndNotificationWaiting)
  /\ WF_vars(RecordAndProcess)

(***************************************************************************)
(* get_agent: the module global _agent of llm_agent.py and the threads     *)
(* that SionApp.on_send starts, one for every message sent.  Each thread   *)
(* runs process_message, which calls get_agent(); the interpreter may      *)
(* switch threads between any two statements of get_agent, and during the  *)
(* construction of an LLMAgent.                                            *)
(***************************************************************************)
\* the most messages sent while the application runs
MaxSenders == 3

\* _agent = None
NoAgent == 0

\* a thread that on_send has not started, and one that enters get_agent
NoSender == [at |-> "", made |-> NoAgent, got |-> NoAgent]

Entering == [at |-> "test", made |-> NoAgent, got |-> NoAgent]

InitAgent ==
  /\ agent = NoAgent
  /\ constructed = 0
  /\ senders = [t \in 1..MaxSenders |-> NoSender]
  /\ IdleNLU /\ IdleTime /\ IdleNow /\ IdleDate /\ IdleCal /\ IdleEvent /\ IdleRepeat
  /\ IdleChat /\ IdleCalendarTask /\ IdleMail

notAgent ==
  <<nluVars, timeVars, now, dateVars, calVars, evVars, earlier, llmVars, ctVars, mailVars>>

\* threading.Thread(target=self.process_message, args=(message,)).start(),
\* and process_message reaches agent = get_agent()
OnSend(t) ==
  /\ senders[t].at = ""
  /\ \A u \in 1..(t - 1) : senders[u].at # ""
  /\ senders' = [senders EXCEPT ![t] = Entering]
  /\ UNCHANGED <<agent, constructed, notAgent>>

\* if _agent is None:
TestAgent(t) ==
  /\ senders[t].at = "test"
  /\ senders' =
       [senders EXCEPT ![t].at = IF agent = NoAgent THEN "construct" ELSE "return"]
  /\ UNCHANGED <<agent, constructed, notAgent>>

\* LLMAgent(): the right-hand side of _agent = LLMAgent()
ConstructAgent(t) ==
  /\ senders[t].at = "construct"
  /\ constructed' = constructed + 1
  /\ senders' = [senders EXCEPT ![t] = [at |-> "store", made |-> constructed + 1,
                                        got |-> NoAgent]]
  /\ UNCHANGED <<agent, notAgent>>

\* _agent = <the instance just constructed>
StoreAgent(t) ==
  /\ senders[t].at = "store"
  /\ agent' = senders[t].made
  /\ senders' = [senders EXCEPT ![t].at = "return"]
  /\ UNCHANGED <<constructed, notAgent>>

\* return _agent
ReturnAgent(t) ==
  /\ senders[t].at = "return"
  /\ senders' = [senders EXCEPT ![t] = [@ EXCEPT !.at = "done", !.got = agent]]
  /\ UNCHANGED <<agent, constructed, notAgent>>

NextAgent ==
  \E t \in 1..MaxSenders :
    \/ OnSend(t)
    \/ TestAgent(t)
    \/ ConstructAgent(t)
    \/ StoreAgent(t)
    \/ ReturnAgent(t)

SpecAgent == InitAgent /\ [][NextAgent]_vars

(***************************************************************************)
(* Properties of the classifier and the extractor                          *)
(***************************************************************************)
Intents == 1..Len(INTENT_PATTERNS)

\* how many patterns of table entry k match the case-folded text
MatchCount(k, txt) ==
  Cardinality({p \in 1..Len(INTENT_PATTERNS[k].patterns) :
                 Search(INTENT_PATTERNS[k].patterns[p], Lower(txt))})

NoPatternMatches(txt) == \A k \in Intents : MatchCount(k, txt) = 0

\* 내일 오후 3시에 회의 잡아줘
MeetingText ==
  <<45236, 51068, 32, 50724, 54980, 32, 51, 49884, 50640, 32, 54924, 51032, 32,
    51105, 50500, 51480>>

\* C1: the confidence of every classification lies in [0.3, 0.9] and equals
\* 0.3 + 0.6*s, s being matched/total of the winning intent, 0.5 for llm_chat
\* and 0 for unknown.
C1_ConfidenceCalibrated ==
  analysis.done =>
    /\ 300 <= analysis.intent_confidence
    /\ analysis.intent_confidence <= 900
    /\ CASE analysis.intent = "llm_chat" -> analysis.intent_confidence = 600
         [] analysis.intent = "unknown"  -> analysis.intent_confidence = 300
         [] OTHER ->
              \E k \in Intents :
                /\ INTENT_PATTERNS[k].intent = analysis.intent
                /\ analysis.intent_confidence * Len(INTENT_PATTERNS[k].patterns)
                     = 300 * Len(INTENT_PATTERNS[k].patterns)
                       + 600 * MatchCount(k, text)

\* an intent with all of its patterns matched: the confidence is 0.9
C1_Witness ==
  /\ analysis.done
  /\ analysis.intent = "email_send"
  /\ analysis.intent_confidence = 900

\* C2: "내일 오후 3시에 회의 잡아줘" is classified schedule_add, with a date
\* entity 내일 and a time entity 오후 3시.
C2_MeetingIsScheduleAdd ==
  (analysis.done /\ text = MeetingText) =>
    /\ analysis.intent = "schedule_add"
    /\ \E k \in 1..Len(analysis.entities) :
         /\ analysis.entities[k].type = "date"
         /\ analysis.entities[k].value = <<45236, 51068>>
    /\ \E k \in 1..Len(analysis.entities) :
         /\ analysis.entities[k].type = "time"
         /\ analysis.entities[k].value = <<50724, 54980, 32, 51, 49884>>

\* table entries of schedule_check and web_search
ScheduleCheckEntry == CHOOSE k \in Intents : INTENT_PATTERNS[k].intent = "schedule_check"

WebSearchEntry == CHOOSE k \in Intents : INTENT_PATTERNS[k].intent = "web_search"

\* the text matches 일정 of schedule_check and 알려.*줘 of web_search, and
\* no other pattern
AsksToTellSchedule(txt) ==
  /\ Search(INTENT_PATTERNS[ScheduleCheckEntry].patterns[1], Lower(txt))
  /\ Search(INTENT_PATTERNS[WebSearchEntry].patterns[3], Lower(txt))
  /\ MatchCount(ScheduleCheckEntry, txt) = 1
  /\ MatchCount(WebSearchEntry, txt) = 1
  /\ \A k \in Intents \ {ScheduleCheckEntry, WebSearchEntry} : MatchCount(k, txt) = 0

\* C3: a query that asks to be told the schedule ("오늘 일정 알려줘") is
\* classified schedule_check.
C3_TellScheduleIsScheduleCheck ==
  (analysis.done /\ AsksToTellSchedule(text)) => analysis.intent = "schedule_check"

\* entry k has the highest normalized score, and no earlier entry ties with it
IsWinner(mc, k) ==
  /\ mc[k] > 0
  /\ \A j \in Intents :
       /\ mc[j] * Len(INTENT_PATTERNS[k].patterns)
            <= mc[k] * Len(INTENT_PATTERNS[j].patterns)
       /\ j < k => mc[j] * Len(INTENT_PATTERNS[k].patterns)
                     < mc[k] * Len(INTENT_PATTERNS[j].patterns)

\* C4: the intent returned is the one with the highest normalized score
\* (matched patterns / patterns of the intent); among several with the
\* highest score, the first in table order.
C4_HighestScoreFirstInTable ==
  analysis.done =>
    LET mc == [k \in Intents |-> MatchCount(k, text)]
    IN  \A k \in Intents : IsWinner(mc, k) => analysis.intent = INTENT_PATTERNS[k].intent

\* two intents share the highest score, and the earlier one is returned
C4_Witness ==
  /\ analysis.done
  /\ LET mc == [k \in Intents |-> MatchCount(k, text)]
     IN  \E k, j \in Intents :
           /\ IsWinner(mc, k)
           /\ k < j
           /\ mc[j] * Len(INTENT_PATTERNS[k].patterns)
                = mc[k] * Len(INTENT_PATTERNS[j].patterns)
           /\ analysis.intent = INTENT_PATTERNS[k].intent

\* C5: with no pattern matching, the result is llm_chat at 0.6 for a text
\* longer than 5 characters and unknown at 0.3 otherwise; llm_chat is never
\* the result when a pattern matched.
C5_FallbackByLength ==
  analysis.done =>
    IF NoPatternMatches(text)
    THEN IF Len(text) > 5
         THEN analysis.intent = "llm_chat" /\ analysis.intent_confidence = 600
         ELSE analysis.intent = "unknown" /\ analysis.intent_confidence = 300
    ELSE analysis.intent # "llm_chat"

\* both sides of the length test: a text of 5 characters that matches nothing
C5_Witness ==
  /\ analysis.done
  /\ NoPatternMatches(text)
  /\ Len(text) = 5
  /\ analysis.intent = "unknown"

\* some entity pattern matches somewhere in the text
SomeEntityMatches(txt) ==
  \E k \in 1..Len(ENTITY_PATTERNS) : Search(CompiledEntityPatterns[k], Fold(txt))

\* C6: every entity has 0 <= start < end <= len(text) and value =
\* text[start:end]; a text with no match gives the empty list.
C6_EntitySpans ==
  analysis.done =>
    /\ \A k \in 1..Len(analysis.entities) :
         LET e == analysis.entities[k]
         IN  /\ 0 <= e.start
             /\ e.start < e.end
             /\ e.end <= Len(text)
             /\ e.value = Slice(text, e.start + 1, e.end + 1)
    /\ ~SomeEntityMatches(text) => analysis.entities = <<>>

\* two entities of different types over the same characters, the second
\* reaching the end of the text
C6_Witness ==
  /\ analysis.done
  /\ \E j, k \in 1..Len(analysis.entities) :
       /\ j < k
       /\ analysis.entities[j].type # analysis.entities[k].type
       /\ analysis.entities[j].start < analysis.entities[k].end
       /\ analysis.entities[k].start < analysis.entities[j].end
       /\ analysis.entities[k].end = Len(text)


(***************************************************************************)
(* Properties of the time parser                                           *)
(***************************************************************************)
IsDigit(c) == c >= 48 /\ c <= 57

\* where the runs of digits of s start
RunStarts(s) ==
  {i \in 1..Len(s) : IsDigit(s[i]) /\ (i = 1 \/ ~IsDigit(s[i - 1]))}

\* the integer written by the run of digits that starts at i
RunValue(s, i) ==
  LET j == CHOOSE j \in i..Len(s) :
             /\ \A k \in i..j : IsDigit(s[k])
             /\ j = Len(s) \/ ~IsDigit(s[j + 1])
  IN  ToInt(Slice(s, i, j + 1))

Least(S) == CHOOSE i \in S : \A j \in S : i <= j

\* 오후, or pm in any case
HasPM(s) ==
  \/ Contains(s, <<50724, 54980>>)
  \/ \E i \in 1..(Len(s) - 1) : s[i] \in {80, 112} /\ s[i + 1] \in {77, 109}

\* 오전, or am in any case
HasAM(s) ==
  \/ Contains(s, <<50724, 51204>>)
  \/ \E i \in 1..(Len(s) - 1) : s[i] \in {65, 97} /\ s[i + 1] \in {77, 109}

\* C7: the first integer of the token is the hour and the second, if any, the
\* minute (else 0); then, once, a PM marker adds 12 to an hour below 12, or
\* else an AM marker turns hour 12 into 0; a token without digits gives
\* (9, 0).  "오후 3시" gives (15, 0), "오전 12시" (0, 0), "오전 9시 30분" (9, 30).
C7_ParseTime ==
  parsed_time.done =>
    LET starts == RunStarts(time_str)
        first == Least(starts)
        h == RunValue(time_str, first)
        rest == starts \ {first}
    IN  /\ starts = {} => parsed_time.hour = 9 /\ parsed_time.minute = 0
        /\ starts # {} =>
             /\ parsed_time.minute =
                  (IF rest = {} THEN 0 ELSE RunValue(time_str, Least(rest)))
             /\ parsed_time.hour =
                  (IF HasPM(time_str) /\ h < 12 THEN h + 12
                   ELSE IF HasAM(time_str) /\ h = 12 THEN 0
                   ELSE h)
        /\ time_str = <<50724, 54980, 32, 51, 49884>>
             => parsed_time.hour = 15 /\ parsed_time.minute = 0
        /\ time_str = <<50724, 51204, 32, 49, 50, 49884>>
             => parsed_time.hour = 0 /\ parsed_time.minute = 0
        /\ time_str = <<50724, 51204, 32, 57, 49884, 32, 51, 48, 48516>>
             => parsed_time.hour = 9 /\ parsed_time.minute = 30

\* both markers and hour 0: the PM shift gives 12, and the AM rule is not
\* applied to the shifted hour
C7_Witness ==
  /\ parsed_time.done
  /\ HasPM(time_str)
  /\ HasAM(time_str)
  /\ RunStarts(time_str) # {}
  /\ RunValue(time_str, Least(RunStarts(time_str))) = 0
  /\ parsed_time.hour = 12

(***************************************************************************)
(* Properties of the date parsers                                          *)
(***************************************************************************)
TokToday == <<116, 111, 100, 97, 121>>
TokTomorrow == <<116, 111, 109, 111, 114, 114, 111, 119>>
TokOneul == <<50724, 45720>>                    \* 오늘
TokNaeil == <<45236, 51068>>                    \* 내일
TokMore == <<47784, 47112>>                     \* 모레
TokNextWeek == <<45796, 51020, 32, 51452>>      \* 다음 주

\* the calendar day after dt, by the calendar's rules
NextDay(dt) ==
  IF dt.day < DaysInMonth(dt.year, dt.month) THEN [dt EXCEPT !.day = dt.day + 1]
  ELSE IF dt.month < 12 THEN [dt EXCEPT !.month = dt.month + 1, !.day = 1]
  ELSE [dt EXCEPT !.year = dt.year + 1, !.month = 1, !.day = 1]

RECURSIVE Plus(_, _)
Plus(dt, k) == IF k = 0 THEN dt ELSE Plus(NextDay(dt), k - 1)

SameDay(dt, y, m, d) == dt.year = y /\ dt.month = m /\ dt.day = d

\* C8 as stated: BOTH parsers map today/오늘 to now, tomorrow/내일 to now + 1
\* day, 모레 to now + 2 days and 다음 주 to now + 7 days.
C8_KeywordsInBothParsers ==
  parsed_date.by # "" =>
    /\ date_str \in {TokToday, TokOneul} => parsed_date.date = now
    /\ date_str \in {TokTomorrow, TokNaeil} => parsed_date.date = Plus(now, 1)
    /\ date_str = TokMore => parsed_date.date = Plus(now, 2)
    /\ date_str = TokNextWeek => parsed_date.date = Plus(now, 7)

\* C8, amended: CalendarTask._parse_date_entity maps today/오늘 to now,
\* tomorrow/내일 to now + 1 day, 모레 to now + 2 days and any token containing
\* 다음 주 to now + 7 days, whatever the date library would make of the token;
\* LLMAgent._parse_date maps only today to now and tomorrow to now + 1 day
\* (after lower-casing and stripping) and returns now for 오늘, 내일, 모레 and
\* 다음 주.
C8_KeywordsPerParser ==
  /\ parsed_date.by = "task" =>
       /\ date_str \in {TokToday, TokOneul} => parsed_date.date = now
       /\ date_str \in {TokTomorrow, TokNaeil} => parsed_date.date = Plus(now, 1)
       /\ date_str = TokMore => parsed_date.date = Plus(now, 2)
       /\ Contains(date_str, TokNextWeek) => parsed_date.date = Plus(now, 7)
  /\ parsed_date.by = "agent" =>
       /\ Strip(Lower(date_str)) = TokToday => parsed_date.date = now
       /\ Strip(Lower(date_str)) = TokTomorrow => parsed_date.date = Plus(now, 1)
       /\ date_str \in {TokOneul, TokNaeil, TokMore, TokNextWeek} =>
            parsed_date.date = now

\* the task executor has parsed 다음 주 on New Year's Eve: the week ends in
\* the next year
C8_Witness ==
  /\ parsed_date.by = "task"
  /\ date_str = TokNextWeek
  /\ now.month = 12 /\ now.day = 31
  /\ SameDay(parsed_date.date, now.year + 1, 1, 7)

\* C9 as stated: LLMAgent._parse_date returns an explicit date as written (a
\* token with a year keeps year, month and day; a token without a year that
\* names a date valid in the current year keeps its month and day and gets
\* the current year), and a token that matches no keyword and no format
\* gives now.
C9_ExplicitFormatsAsWritten ==
  parsed_date.by = "agent" =>
    /\ \A y \in YearFields, sep \in Separators, m \in MonthFields, d \in DayFields :
         /\ date_str = y \o sep \o m \o sep \o d
         /\ ~BadDate(ToInt(y), ToInt(m), ToInt(d))
         => SameDay(parsed_date.date, ToInt(y), ToInt(m), ToInt(d))
    /\ \A sep \in Separators, m \in MonthFields, d \in DayFields :
         /\ date_str = m \o sep \o d
         /\ ~BadDate(now.year, ToInt(m), ToInt(d))
         => SameDay(parsed_date.date, now.year, ToInt(m), ToInt(d))
    /\ \A d \in DayFields :
         /\ date_str = d \o <<51068>>
         /\ ToInt(d) \in 1..31
         => parsed_date.date.year = now.year /\ parsed_date.date.day = ToInt(d)
    /\ /\ Strip(Lower(date_str)) \notin {TokToday, TokTomorrow}
       /\ \A k \in 1..Len(Formats) : ~StrpTime(Strip(Lower(date_str)), Formats[k]).ok
       /\ \A sep \in Separators, m \in MonthFields, d \in DayFields :
            date_str # m \o sep \o d
       => parsed_date.date = now

(***************************************************************************)
(* Properties of the calendar query                                        *)
(***************************************************************************)
IsMonthQuery == resolved.status # "" /\ args.period_type = <<"month">>

\* the month argument names a month of the calendar
MonthGiven == args.month # Absent /\ args.month[1] \in 1..12

\* the year of the query: the year argument, else the current year
GivenYear == IF args.year = Absent THEN now.year ELSE args.year[1]

\* the month after month m of year y begins in the year 10000, which
\* datetime does not represent
LastMonth(y, m) == y = 9999 /\ m = 12

\* relative, "current" when absent
RelativeIs(r) == args.relative = <<r>> \/ (r = "current" /\ args.relative = Absent)

\* the resolved range starts on the first day of month m of year y and ends
\* in that month
InMonth(y, m) ==
  /\ resolved.status = "ok"
  /\ SameDay(resolved.start, y, m, 1)
  /\ resolved.end.year = y /\ resolved.end.month = m

\* without a month, current gives now's month, next the following month
\* (December rolls over to January of the next year) and previous the
\* preceding month (January rolls back to December of the year before).  From
\* 2024-12-15, next covers all of January 2025; from 2025-01-10, previous
\* covers all of December 2024.
RelativeMonth ==
  /\ args.month = Absent /\ RelativeIs("current") => InMonth(now.year, now.month)
  /\ args.month = Absent /\ RelativeIs("next") =>
       IF now.month = 12 THEN InMonth(now.year + 1, 1)
       ELSE InMonth(now.year, now.month + 1)
  /\ args.month = Absent /\ RelativeIs("previous") =>
       IF now.month = 1 THEN InMonth(now.year - 1, 12)
       ELSE InMonth(now.year, now.month - 1)
  /\ /\ args.month = Absent /\ RelativeIs("next")
     /\ SameDay(now, 2024, 12, 15)
     => /\ resolved.start = DateTime(2025, 1, 1, 0, 0)
        /\ resolved.end = DateTime(2025, 1, 31, 0, 0)
  /\ /\ args.month = Absent /\ RelativeIs("previous")
     /\ SameDay(now, 2025, 1, 10)
     => /\ resolved.start = DateTime(2024, 12, 1, 0, 0)
        /\ resolved.end = DateTime(2024, 12, 31, 0, 0)

\* C10 as stated: for a month query the target month is the given month in
\* the given year (the current year when year is absent) whatever relative
\* says, for every year and month; without a month it is the month relative
\* names.
C10_TargetMonthEveryYear ==
  IsMonthQuery =>
    /\ MonthGiven => InMonth(GivenYear, args.month[1])
    /\ RelativeMonth

\* C10, amended: for a month query the target month is the given month in
\* the given year (the current year when year is absent; a year from 1 to
\* 9999) whatever relative says, except December 9999: the first day of the
\* month after it is no date, datetime raises and the query ends in the
\* error message with no range.  Without a month it is the month relative
\* names.
C10_TargetMonth ==
  IsMonthQuery =>
    /\ MonthGiven /\ GivenYear \in 1..9999 =>
         IF LastMonth(GivenYear, args.month[1]) THEN resolved.status = "error"
         ELSE InMonth(GivenYear, args.month[1])
    /\ RelativeMonth

\* the query for next month has been resolved in December: the range lies
\* in January of the next year
C10_Witness ==
  /\ IsMonthQuery
  /\ args.month = Absent /\ args.relative = <<"next">>
  /\ now.month = 12
  /\ resolved.status = "ok"
  /\ resolved.start.year = now.year + 1 /\ resolved.start.month = 1

\* the number of the last day of month m of year y
LastDay(y, m) ==
  IF m \in {1, 3, 5, 7, 8, 10, 12} THEN 31
  ELSE IF m \in {4, 6, 9, 11} THEN 30
  ELSE IF y % 400 = 0 \/ (y % 4 = 0 /\ y % 100 # 0) THEN 29
  ELSE 28

\* every month query that resolved starts on day 1 and ends on the last day
\* of the same month: the day after end is day 1 of the following month,
\* January of the next year after December
WholeMonth ==
  resolved.status = "ok" =>
    /\ resolved.start.day = 1
    /\ resolved.end.year = resolved.start.year
    /\ resolved.end.month = resolved.start.month
    /\ resolved.end.day = LastDay(resolved.start.year, resolved.start.month)
    /\ NextDay(resolved.end).day = 1
    /\ IF resolved.start.month = 12
       THEN /\ NextDay(resolved.end).month = 1
            /\ NextDay(resolved.end).year = resolved.start.year + 1
       ELSE /\ NextDay(resolved.end).month = resolved.start.month + 1
            /\ NextDay(resolved.end).year = resolved.start.year

\* the range is month m of year y, from day 1 to its last day
MonthOf(y, m) ==
  /\ resolved.status = "ok"
  /\ resolved.start = DateTime(y, m, 1, 0, 0)
  /\ resolved.end = DateTime(y, m, LastDay(y, m), 0, 0)

\* C11 as stated: for EVERY target year and month 1..12 of a month query,
\* start is day 1 of that month and end is the last day of the same month:
\* the day after end is day 1 of the following month, January of the next
\* year after December; February ends on the 29th in a leap year and on the
\* 28th otherwise.
C11_EveryMonthStartAndEnd ==
  IsMonthQuery =>
    /\ MonthGiven => MonthOf(GivenYear, args.month[1])
    /\ WholeMonth

\* C11, amended: for every target year from 1 to 9999 and month 1..12 of a
\* month query but December 9999, start is day 1 of that month and end is
\* the last day of the same month: the day after end is day 1 of the
\* following month, January of the next year after December; February ends
\* on the 29th in a leap year and on the 28th otherwise.  For December 9999
\* the query ends in the error message and no range is resolved.
C11_MonthStartAndEnd ==
  IsMonthQuery =>
    /\ MonthGiven /\ GivenYear \in 1..9999 =>
         IF LastMonth(GivenYear, args.month[1]) THEN resolved.status = "error"
         ELSE MonthOf(GivenYear, args.month[1])
    /\ WholeMonth

\* the query for December of a given year has been resolved: it ends on the
\* 31st of that December
C11_Witness ==
  /\ IsMonthQuery
  /\ args.month = <<12>> /\ args.year = <<2024>>
  /\ resolved.status = "ok"
  /\ resolved.start = DateTime(2024, 12, 1, 0, 0)
  /\ resolved.end = DateTime(2024, 12, 31, 0, 0)

IsWeekQuery == resolved.status # "" /\ args.period_type = <<"week">>

\* the day of the week of a date, Sunday being 0 (Sakamoto's method)
DayOfWeek(dt) ==
  LET t == <<0, 3, 2, 5, 0, 3, 5, 1, 4, 6, 2, 4>>
      y == IF dt.month < 3 THEN dt.year - 1 ELSE dt.year
  IN  (y + y \div 4 - y \div 100 + y \div 400 + t[dt.month] + dt.day) % 7

\* a is not later than b
NotLater(a, b) ==
  LET ka == <<a.year, a.month, a.day, a.hour, a.minute>>
      kb == <<b.year, b.month, b.day, b.hour, b.minute>>
  IN  \/ ka = kb
      \/ \E i \in 1..5 : ka[i] < kb[i] /\ \A j \in 1..(i - 1) : ka[j] = kb[j]

\* C12: for a week query, start is the Monday of now's week when relative is
\* current, that Monday plus 7 days when next and minus 7 days when previous,
\* and end = start + 6 days: start is always a Monday, end the Sunday after
\* it, and the range of the current week contains now.
C12_WeekFromMonday ==
  IsWeekQuery =>
    /\ resolved.status = "ok"
    /\ DayOfWeek(resolved.start) = 1
    /\ resolved.end = Plus(resolved.start, 6)
    /\ DayOfWeek(resolved.end) = 0
    /\ RelativeIs("current") =>
         /\ \E k \in 0..6 : Plus(resolved.start, k) = now
         /\ NotLater(resolved.start, now) /\ NotLater(now, resolved.end)
    /\ RelativeIs("next") => \E k \in 0..6 : Plus(resolved.start, k) = Plus(now, 7)
    /\ RelativeIs("previous") => \E k \in 0..6 : Plus(resolved.start, k + 7) = now

\* next week has been asked for on Tuesday 2024-12-31: the week starts on
\* Monday 2025-01-06
C12_Witness ==
  /\ IsWeekQuery
  /\ args.relative = <<"next">>
  /\ SameDay(now, 2024, 12, 31)
  /\ SameDay(resolved.start, 2025, 1, 6)
  /\ SameDay(resolved.end, 2025, 1, 12)

IsRangeQuery == resolved.status # "" /\ args.period_type = <<"range">>

\* an argument that is given and is not the empty string
Given(opt) == opt # Absent /\ opt[1] # <<>>

\* the dates written in the strings of the range queries:
\* 2024-12-30, 2025-01-02, 2024-12-28
WrittenDates ==
  { <<<<50, 48, 50, 52, 45, 49, 50, 45, 51, 48>>, DateTime(2024, 12, 30, 0, 0)>>,
    <<<<50, 48, 50, 53, 45, 48, 49, 45, 48, 50>>, DateTime(2025, 1, 2, 0, 0)>>,
    <<<<50, 48, 50, 52, 45, 49, 50, 45, 50, 56>>, DateTime(2024, 12, 28, 0, 0)>> }

Parses(opt) == Given(opt) /\ \E w \in WrittenDates : w[1] = opt[1]

Written(opt) == (CHOOSE w \in WrittenDates : w[1] = opt[1])[2]

\* C13 as stated: start and end are the parsed start_date and end_date when
\* both are given and parse; if either is missing or unparseable, both start
\* and end are now.
C13_RangeBothOrNow ==
  IsRangeQuery =>
    IF Parses(args.start_date) /\ Parses(args.end_date)
    THEN resolved.start = Written(args.start_date) /\ resolved.end = Written(args.end_date)
    ELSE resolved.start = now /\ resolved.end = now

\* C13, amended: for a range query, if a given start_date or end_date does
\* not parse, both start and end are now; otherwise start is the parsed
\* start_date, or now when start_date is missing or empty, and end is the
\* parsed end_date, or start when end_date is missing or empty.
C13_RangeDefaults ==
  IsRangeQuery =>
    /\ resolved.status = "ok"
    /\ IF \/ Given(args.start_date) /\ ~Parses(args.start_date)
          \/ Given(args.end_date) /\ ~Parses(args.end_date)
       THEN resolved.start = now /\ resolved.end = now
       ELSE /\ resolved.start =
                 IF Given(args.start_date) THEN Written(args.start_date) ELSE now
            /\ resolved.end =
                 IF Given(args.end_date) THEN Written(args.end_date) ELSE resolved.start

\* a range query with a start date and no end date has been resolved: it is
\* the single day of the start date, not today
C13_Witness ==
  /\ IsRangeQuery
  /\ Parses(args.start_date) /\ args.end_date = Absent
  /\ resolved.start = Written(args.start_date)
  /\ resolved.end = resolved.start
  /\ ~SameDay(resolved.start, now.year, now.month, now.day)

\* C14 as stated: every range the resolver produces satisfies start <= end,
\* for every period type, relative, year, month and pair of date strings.
C14_StartNotAfterEnd ==
  resolved.status = "ok" => NotLater(resolved.start, resolved.end)

\* the period type is given and is none of the four the method knows
UnknownPeriodType ==
  /\ args.period_type # Absent
  /\ args.period_type[1] \notin {"day", "week", "month", "range"}

\* C15 as stated: a period_type that is none of day, week, month, range is
\* reported as a rejected outcome: no range is resolved for it and no query
\* is sent to the calendar.
C15_UnknownPeriodRejected ==
  resolved.status # "" /\ UnknownPeriodType =>
    resolved.status = "error" /\ resolved.query = ""

(***************************************************************************)
(* Properties of the recurrence rules and of the events                    *)
(***************************************************************************)
\* an event has been handed to the calendar
EventBuilt == event.call \in {"create_event", "create_all_day_event"}

\* yearly, monthly, weekly, daily and the FREQ value of each
Frequencies ==
  { <<<<121, 101, 97, 114, 108, 121>>, <<89, 69, 65, 82, 76, 89>>>>, <<<<109, 111, 110, 116, 104, 108, 121>>, <<77, 79, 78, 84, 72, 76, 89>>>>,
    <<<<119, 101, 101, 107, 108, 121>>, <<87, 69, 69, 75, 76, 89>>>>, <<<<100, 97, 105, 108, 121>>, <<68, 65, 73, 76, 89>>>> }

\* the payload names a recurrence keyword, in any letter case
Recognized ==
  /\ event_args.recurrence # Absent
  /\ \E f \in Frequencies : Lower(event_args.recurrence[1]) = f[1]

FrequencyOf(keyword) == (CHOOSE f \in Frequencies : f[1] = Lower(keyword))[2]

\* recurrence_count is absent or null
CountUnset == event_args.recurrence_count \in {Absent, <<PyNone>>}

\* the text of a rule after "RRULE:FREQ=<frequency>;COUNT="
CountText(rule, frequency) ==
  SubSeq(rule, Len(<<82, 82, 85, 76, 69, 58, 70, 82, 69, 81, 61>>) + Len(frequency) + Len(<<59, 67, 79, 85, 78, 84, 61>>) + 1, Len(rule))

\* the rule is "RRULE:FREQ=<frequency>;COUNT=<digits>" for a count > 0
WellFormedRule(rule) ==
  \E f \in Frequencies :
    /\ Len(rule) > Len(<<82, 82, 85, 76, 69, 58, 70, 82, 69, 81, 61>> \o f[2] \o <<59, 67, 79, 85, 78, 84, 61>>)
    /\ SubSeq(rule, 1, Len(<<82, 82, 85, 76, 69, 58, 70, 82, 69, 81, 61>> \o f[2] \o <<59, 67, 79, 85, 78, 84, 61>>))
         = <<82, 82, 85, 76, 69, 58, 70, 82, 69, 81, 61>> \o f[2] \o <<59, 67, 79, 85, 78, 84, 61>>
    /\ \A k \in 1..Len(CountText(rule, f[2])) : IsDigit(CountText(rule, f[2])[k])
    /\ ToInt(CountText(rule, f[2])) > 0

\* C16 as stated: a recognized keyword with an unset count (absent or None)
\* gives the rule of that frequency with count 10.
C16_UnsetCountIsTen ==
  EventBuilt /\ Recognized /\ CountUnset =>
    event.recurrence =
      << <<82, 82, 85, 76, 69, 58, 70, 82, 69, 81, 61>> \o FrequencyOf(event_args.recurrence[1]) \o <<59, 67, 79, 85, 78, 84, 61, 49, 48>> >>

\* C17 as stated: every rule the builder returns has one of the four
\* frequencies and an integer count > 0, whatever keyword and count are
\* passed; an unrecognized keyword gives no rule and no error.
C17_RuleWellFormed ==
  /\ EventBuilt /\ event.recurrence # <<>> => WellFormedRule(event.recurrence[1])
  /\ event.call # "" /\ TruthyStr(event_args.recurrence) /\ ~Recognized =>
       EventBuilt /\ event.recurrence = <<>>

\* the days written in the start and end dates of the payloads:
\* 2024-12-11, 2024-12-13, 2024-12-31, and 12/31 and tomorrow, which depend
\* on what the clock returns when the date is parsed
WrittenDay(str, clock) ==
  IF str = <<50, 48, 50, 52, 45, 49, 50, 45, 49, 49>> THEN DateTime(2024, 12, 11, 0, 0)
  ELSE IF str = <<50, 48, 50, 52, 45, 49, 50, 45, 49, 51>> THEN DateTime(2024, 12, 13, 0, 0)
  ELSE IF str = <<50, 48, 50, 52, 45, 49, 50, 45, 51, 49>> THEN DateTime(2024, 12, 31, 0, 0)
  ELSE IF str = <<49, 50, 47, 51, 49>> THEN DateTime(clock.year, 12, 31, 0, 0)
  ELSE IF str = <<116, 111, 109, 111, 114, 114, 111, 119>> THEN [NextDay(clock) EXCEPT !.hour = 0, !.minute = 0]
  ELSE [clock EXCEPT !.hour = 0, !.minute = 0]

\* the day the event starts on: start_date, else the key "date", else today
StartDay ==
  IF event_args.start_date # Absent THEN WrittenDay(event_args.start_date[1], now)
  ELSE IF event_args.date # Absent THEN WrittenDay(event_args.date[1], now)
  ELSE [now EXCEPT !.hour = 0, !.minute = 0]

\* C18: when end_date is present (a non-empty string), the event built is an
\* all-day event from start_date to end_date + 1 day (end-exclusive),
\* whatever is_all_day, time and duration are; start 2024-12-11 and end
\* 2024-12-13 give an all-day event that ends on 2024-12-14.  A relative
\* date is the day it names when the method parses it: start_date at the
\* first reading of the clock, end_date at the second.
C18_EndDateGivesAllDay ==
  event.call # "" /\ Given(event_args.end_date) =>
    /\ event.call = "create_all_day_event"
    /\ event.start = StartDay
    /\ event.end = NextDay(WrittenDay(event_args.end_date[1], now_again))
    /\ /\ event_args.start_date = << <<50, 48, 50, 52, 45, 49, 50, 45, 49, 49>> >>
       /\ event_args.end_date = << <<50, 48, 50, 52, 45, 49, 50, 45, 49, 51>> >>
       => /\ event.start = DateTime(2024, 12, 11, 0, 0)
          /\ event.end = DateTime(2024, 12, 14, 0, 0)

\* a payload with an end date, a time, a duration and is_all_day false has
\* become an all-day event that ends the day after its end date
C18_Witness ==
  /\ event.call = "create_all_day_event"
  /\ event_args.start_date = << <<50, 48, 50, 52, 45, 49, 50, 45, 49, 49>> >>
  /\ event_args.end_date = << <<50, 48, 50, 52, 45, 49, 50, 45, 49, 51>> >>
  /\ event_args.is_all_day = <<FALSE>>
  /\ event_args.time = << <<49, 53, 58, 48, 48>> >>
  /\ event_args.duration = <<PyInt(90)>>
  /\ event.end = DateTime(2024, 12, 14, 0, 0)

\* the hour and minute written in the times of the payloads (15:00, 9:5,
\* 23:30, 25:00), and the default 9:00 for a time that is not "H:M"
WrittenClock(str) ==
  IF str = <<49, 53, 58, 48, 48>> THEN [hour |-> 15, minute |-> 0]
  ELSE IF str = <<57, 58, 53>> THEN [hour |-> 9, minute |-> 5]
  ELSE IF str = <<50, 51, 58, 51, 48>> THEN [hour |-> 23, minute |-> 30]
  ELSE IF str = <<50, 53, 58, 48, 48>> THEN [hour |-> 25, minute |-> 0]
  ELSE [hour |-> 9, minute |-> 0]

\* dt moved k minutes later, minute by minute
RECURSIVE Later(_, _)
Later(dt, k) ==
  IF k = 0 THEN dt
  ELSE IF dt.minute < 59 THEN Later([dt EXCEPT !.minute = dt.minute + 1], k - 1)
  ELSE IF dt.hour < 23 THEN Later([dt EXCEPT !.hour = dt.hour + 1, !.minute = 0], k - 1)
  ELSE Later([NextDay(dt) EXCEPT !.hour = 0, !.minute = 0], k - 1)

\* C19 as stated: without an end date, is_all_day true or an absent time
\* give a single all-day event on start_date that ends the next day;
\* otherwise the event is timed, starts on start_date at the parsed hour and
\* minute and ends duration minutes later (60 by default).  Every call
\* produces exactly one of the three shapes.
C19_OneShapePerCall ==
  event.call # "" =>
    /\ EventBuilt
    /\ ~Given(event_args.end_date) =>
         IF event_args.is_all_day = <<TRUE>> \/ ~Given(event_args.time)
         THEN /\ event.call = "create_all_day_event"
              /\ event.start = StartDay
              /\ event.end = NextDay(StartDay)
         ELSE /\ event.call = "create_event"
              /\ event.start =
                   [StartDay EXCEPT !.hour = WrittenClock(event_args.time[1]).hour,
                                    !.minute = WrittenClock(event_args.time[1]).minute]
              /\ event.end =
                   Later(event.start,
                         IF event_args.duration = Absent THEN 60
                         ELSE event_args.duration[1].n)

(***************************************************************************)
(* Properties of repeated calls                                            *)
(***************************************************************************)
\* C20 as stated: a component called twice with identical inputs returns
\* identical output, also when the two calls are made at different clock
\* times, because no component reads the clock itself.
C20_SameArgumentsSameResult ==
  /\ earlier.of = "parse_date" => parsed_date.date = earlier.date
  /\ earlier.of = "check_calendar" => resolved = earlier.range


(***************************************************************************)
(* Properties of the LLMTask conversation store                            *)
(***************************************************************************)
\* the last call was a chat call with a message
ChatWithMessage == replied.call = "chat" /\ replied.message # 0

\* C21: a chat call with a message and no conversation_id (none, or an empty
\* one) returns an id that was not a key of the store before the call; a chat
\* call that gives a conversation_id gets that id back; a chat call with an
\* empty message returns conversation_id None and leaves the store as it was
C21_ChatConversationId ==
  /\ (ChatWithMessage /\ NotGiven(replied.given)) =>
       /\ ~replied.conversation_id.none
       /\ replied.conversation_id.id \notin DOMAIN replied.before
  /\ (ChatWithMessage /\ ~NotGiven(replied.given)) =>
       replied.conversation_id = replied.given
  /\ (replied.call = "chat" /\ replied.message = 0) =>
       /\ replied.conversation_id = NoId
       /\ llm_task.conversations = replied.before

\* a call without an id got a new id while another conversation was stored
C21_Witness ==
  /\ ChatWithMessage
  /\ replied.given = NoId
  /\ replied.before # NoConversations
  /\ replied.conversation_id.id \in DOMAIN llm_task.conversations \ DOMAIN replied.before

\* C22: after clear_conversation(id) the id is not a key of the store and every
\* other conversation is stored with the history it had; clearing an id that
\* is not stored changes nothing
C22_ClearRemovesOnlyThat ==
  replied.call = "clear" =>
    LET c == replied.given.id
    IN  /\ c \notin DOMAIN llm_task.conversations
        /\ DOMAIN llm_task.conversations = DOMAIN replied.before \ {c}
        /\ \A k \in DOMAIN llm_task.conversations :
             llm_task.conversations[k] = replied.before[k]
        /\ c \notin DOMAIN replied.before => llm_task.conversations = replied.before

\* a stored conversation was cleared while another one had messages
C22_Witness ==
  /\ replied.call = "clear"
  /\ replied.given.id \in DOMAIN replied.before
  /\ Len(replied.before[replied.given.id]) > 0
  /\ \E k \in DOMAIN llm_task.conversations : Len(llm_task.conversations[k]) > 0

\* C24: every stored history has at most 10 messages, and they are the latest
\* ones of the conversation in the order they were sent
C24_KeepsTenMessages ==
  \A c \in DOMAIN llm_task.conversations :
    LET history == llm_task.conversations[c]
    IN  /\ Len(history) <= 10
        /\ \A k \in 1..Len(history) :
             history[k] =
               Message(IF k % 2 = 1 THEN "user" ELSE "assistant",
                       history[Len(history)].content - ((Len(history) - k) \div 2))

\* C25: when the API call of a chat raises, the call returns an error response
\* with tokens_used 0, no message is added to the history of its conversation,
\* and every other conversation is stored with the history it had
C25_FailedCallKeepsHistories ==
  (replied.call = "chat" /\ replied.outcome = "error") =>
    /\ replied.tokens_used = 0
    /\ ~replied.conversation_id.none
    /\ DOMAIN replied.before \subseteq DOMAIN llm_task.conversations
    /\ \A c \in DOMAIN llm_task.conversations :
         llm_task.conversations[c] = HistoryOf(replied.before, c)

\* the API call raised in a conversation that had messages, next to another one
C25_Witness ==
  /\ replied.call = "chat"
  /\ replied.outcome = "error"
  /\ replied.given = replied.conversation_id
  /\ Len(HistoryOf(replied.before, replied.given.id)) > 0
  /\ \E k \in DOMAIN replied.before \ {replied.given.id} : Len(replied.before[k]) > 0

(***************************************************************************)
(* Properties of CalendarTask                                              *)
(***************************************************************************)
\* C23: a CalendarTask without a credentials path never has a service, and its
\* check, add, delete and update succeed with the demo-mode message, check
\* with no events, without a call of the calendar API and without a change
\* of the calendar
C23_DemoModeWithoutCredentials ==
  ~calendar_task.credentials_path =>
    /\ ~calendar_task.service
    /\ ~calendar_task.initialized
    /\ calendar \in Calendars
    /\ executed.action \in {"check", "add", "delete", "update"} =>
         /\ executed.success
         /\ executed.message = "demo"
         /\ executed.calls = <<>>
         /\ executed.action = "check" => executed.events = <<>>

\* demo mode answered a check with no events although the calendar has one today
C23_Witness ==
  /\ ~calendar_task.credentials_path
  /\ executed.action = "check"
  /\ executed.success
  /\ executed.events = <<>>
  /\ \E k \in 1..Len(calendar.events) : OnDay(calendar.events[k].start, now)

\* the last call was a delete without an event_id, with the service there
DeleteByTitle ==
  /\ executed.action = "delete"
  /\ calendar_task.service
  /\ executed.params.event_id = Absent

\* C26: a delete without an event_id deletes an event only when its title
\* contains the requested title, whatever the case of the letters; when no
\* title is given either, nothing is deleted and the call reports that
\* nothing was found
C26_DeleteOnlyByGivenTitle ==
  DeleteByTitle =>
    /\ executed.message = "deleted" =>
         \E k \in 1..Len(executed.before) :
           /\ executed.before[k].id = executed.event_id[1]
           /\ Contains(Lower(Listed(executed.before[k]).title),
                       Lower(Get(executed.params.title, <<>>)))
    /\ executed.params.title = Absent =>
         /\ executed.message = "not found"
         /\ calendar.events = executed.before

(***************************************************************************)
(* Properties of the mail monitor                                          *)
(***************************************************************************)
\* the mail with this id is unread in the inbox
InInbox(id) == \E k \in 1..Len(inbox) : inbox[k].id = id

\* C27: while mail notifications are enabled, every unread mail that arrived
\* after monitoring started is eventually announced: none is recorded in
\* notified_email_ids and then dropped because another notification waits.
\* A mail in the inbox is announced in the end, unless the user turns the
\* mail notifications off before it is
C27_NewMailIsAnnounced ==
  \A id \in 1..MaxEmails :
    InInbox(id) ~> (id \in shown.emails \/ ~settings.email_enabled)

\* C28: whenever a notification sets waiting_for_response, it eventually
\* returns to false and pending_notification to None
C28_WaitingEnds ==
  app.waiting_for_response ~>
    (~app.waiting_for_response /\ app.pending_notification = NoPending)

\* C29: during a monitoring session every mail is handed to
\* _notify_new_email at most once
C29_HandedAtMostOnce == \A id \in DOMAIN handed : handed[id] <= 1

(***************************************************************************)
(* Properties of get_agent.                                                *)
(***************************************************************************)
\* the threads whose get_agent() call has returned
Returned == {t \in DOMAIN senders : senders[t].at = "done"}

\* C30: get_agent() returns the same LLMAgent instance on every call and at
\* most one LLMAgent is ever constructed, also when several
\* message-processing threads call it concurrently.
C30_OneAgent ==
  /\ constructed <= 1
  /\ \A t \in Returned, u \in Returned : senders[t].got = senders[u].got

====
